---- MODULE Spec2Model ----
(***************************************************************************)
(* A model of the voxel world:   the voxel store kept by App (React state  *)
(* `voxels`, written through functional updaters) and the occupancy map    *)
(* VoxelWorld rebuilds from it, the player's movement resolution, the      *)
(* pedestrians' path following and the autonomous cars' traffic control.   *)
(*                                                                         *)
(* Numbers are fixed point.  Voxel coordinates count quarter units         *)
(* (raycast points are drawn on a quarter-unit lattice, so that rounding   *)
(* and flooring are real conversions).                                     *)
(***************************************************************************)
EXTENDS Integers, Sequences, FiniteSets, TLC

VARIABLES
    \* ---- App / VoxelWorld: the voxel store
    voxels,      \* App's React state `voxels`: the committed array
    updates,     \* functional updaters queued by setVoxels, not yet rendered
    voxelMap,    \* state.voxelMap, as the last effect run built it
    now,         \* Date.now(), in milliseconds
    opLog,       \* history: the writes in the order the updaters applied them
    dragVoxels,  \* currentDragVoxelsRef.current
    nOps,        \* history: number of handler calls so far
    lastReach,   \* history: the last handler call's hit distance, camera mode, and whether it wrote
    \* ---- state.player
    ppos,        \* player.mesh.position, <<x, y, z>> in 1/500 units
    pvel,        \* player.velocity, <<x, y, z>> in 1/5 units per second
    isGrounded,  \* player.isGrounded
    frames,      \* history: frames animated so far
    lastTick,    \* history: the last updatePlayer call's target X/Z and resolved y
    maxDeltaSeen, \* history: the largest frame delta of the falling scenario so far
    cars,        \* state.cars: path, progress, speed, desiredSpeed, timeStationary, pos, fwd
    pedestrians, \* state.pedestrians: path, progress, speed, pos, isFollowingPlayer
    train,       \* state.train: progress
    ticks,       \* history: traffic frames animated so far
    lastCars,    \* history: per car, the pose the last updateCars read and its targetSpeed
    lastPeds,    \* history: per pedestrian, what the last two updatePedestrians calls did
    \* ---- generative building
    constructionWorkers, \* state.constructionWorkers: pos, target, isPreparing, isBuilding, buildQueue, buildCooldown
    forSaleSigns,        \* state.forSaleSigns: the sign positions
    inFlight,            \* startGenerativeBuild calls awaiting generateContent
    lastBuild,           \* history: calls and frames so far, the last call's sign and worker,
                         \* and per worker the last queue it was given and what it placed of it
    cash,                \* the player's cash (App's cash state)
    \* ---- knockback and vehicle collisions
    spring,        \* one agent's offset and displacementVelocity along a push, ticked at 60 Hz
    pair,          \* two vehicles as updateCarCollisions lists them: type, pos, vel
    drivableCars,  \* state.drivableCars: pos (mesh.position), velocity, steering
    displacement,  \* offset and displacementVelocity of each state.cars / state.pedestrians entry
    lastKnock,     \* history: what the last frame's spring integration and reroute computed
    \* ---- the frame loop, the chat sessions, the undo history
    animation,     \* where animate stands in the current frame and what it has called
    gemini,        \* state.gemini: sessionPromise, activeChatSession, micStream
    isTalking,     \* the isTalking flag of each NPC
    chat,          \* isChatting, nearbyNpc, the startConversation calls and live sessions in flight
    undoStackRef,  \* undoStackRef.current
    redoStackRef,  \* redoStackRef.current
    lastUndo       \* history: the positions occupied before the last undo, and whether the redo followed

gridVars == <<voxels, updates, voxelMap, now, opLog, dragVoxels, nOps, lastReach>>
playerVars == <<ppos, pvel, isGrounded, frames, lastTick, maxDeltaSeen>>
trafficVars == <<cars, pedestrians, train, ticks, lastCars, lastPeds>>
buildVars == <<constructionWorkers, forSaleSigns, inFlight, lastBuild, cash>>
knockVars == <<spring, pair, drivableCars, displacement, lastKnock>>
chatVars == <<gemini, isTalking, chat>>
undoVars == <<undoStackRef, redoStackRef, lastUndo>>
sessionVars == <<animation, chatVars, undoVars>>
vars == <<gridVars, playerVars, trafficVars, buildVars, knockVars, sessionVars>>

----------------------------------------------------------------------------
(* Bounds of the voxel-store model *)

\* largest x coordinate (in whole units) of a raycast point
MaxCoord == 1
\* handler calls per behaviour
MaxOps == 2
\* milliseconds the clock may advance
MaxClock == 1

\* quarter units per unit
Q == 2 * 2

\* raycast / ground-plane hit points: x on the quarter lattice, y = z = 0
RawCoords == 0 .. (MaxCoord * Q)

----------------------------------------------------------------------------
(* Conversions *)

\* Math.round: the nearest integer, halves up
MathRound(v) == ((v + Q \div 2) \div Q) * Q

\* Math.floor
MathFloor(v) == (v \div Q) * Q

\* snapToGrid(value, size); size is Q (1) or Q \div 2 (0.5)
snapToGrid(value, size) ==
    IF size = Q THEN MathRound(value)
    ELSE ((2 * value + size) \div (2 * size)) * size

\* the map key of a position: v.position.join(',') - the raw coordinates
KeyOf(position) == position

\* the key isVoxelAt looks up: every coordinate floored
FlooredKey(x, y, z) == <<MathFloor(x), MathFloor(y), MathFloor(z)>>

\* isVoxelAt(x, y, z)
isVoxelAt(x, y, z) == FlooredKey(x, y, z) \in DOMAIN voxelMap

----------------------------------------------------------------------------
(* The store *)

Sizes == {Q, Q \div 2}

\* generateWorldData: one ground voxel, ids are the array indices
InitialVoxels == << [id |-> 0, position |-> <<0, 0, 0>>, size |-> Q] >>

\* the clock reads above every index id of the initial world
StartClock == Len(InitialVoxels) + 1

RECURSIVE FilterSeq(_, _)
\* Array.prototype.filter with the test "keep(v)"
FilterSeq(s, keepIds) ==
    IF s = <<>> THEN <<>>
    ELSE IF Head(s).id \in keepIds
         THEN <<Head(s)>> \o FilterSeq(Tail(s), keepIds)
         ELSE FilterSeq(Tail(s), keepIds)

\* handleAddVoxel's updater: append, the id read from the clock
ApplyAddAppend(prev, u, clock) ==
    Append(prev, [id |-> clock, position |-> u.position, size |-> u.size])

ApplyAdd(prev, u, clock) == ApplyAddAppend(prev, u, clock)

\* handleRemoveVoxel's updater: drop every voxel with that id
ApplyRemove(prev, u) ==
    FilterSeq(prev, {prev[i].id : i \in DOMAIN prev} \ {u.id})

\* handleRemoveVoxels' updater: drop every voxel that sits at one of the positions
handleRemoveVoxels(prev, positions) ==
    LET kept(v) == v.position \notin positions
    IN  SelectSeq(prev, kept)

ApplyUpdate(prev, u, clock) ==
    IF u.kind = "add" THEN ApplyAdd(prev, u, clock)
    ELSE IF u.kind = "removeAt" THEN handleRemoveVoxels(prev, u.position)
    ELSE ApplyRemove(prev, u)

RECURSIVE ApplyAll(_, _, _)
\* React runs the queued updaters in order on the committed state
ApplyAll(prev, us, clock) ==
    IF us = <<>> THEN prev
    ELSE ApplyAll(ApplyUpdate(prev, Head(us), clock), Tail(us), clock)

\* the effect on [voxels]: a fresh Map, voxels.forEach(v => map.set(key, v))
MapOf(vs) ==
    [k \in {KeyOf(vs[i].position) : i \in DOMAIN vs} |->
        LET last == CHOOSE i \in DOMAIN vs :
                       /\ KeyOf(vs[i].position) = k
                       /\ \A j \in DOMAIN vs : KeyOf(vs[j].position) = k => j <= i
        IN  vs[last]]

\* what the log records of an applied updater
LogEntry(u, clock) ==
    [kind |-> u.kind, position |-> u.position,
     id |-> IF u.kind = "add" THEN clock ELSE u.id]

RECURSIVE LogAll(_, _)
LogAll(us, clock) ==
    IF us = <<>> THEN <<>> ELSE <<LogEntry(Head(us), clock)>> \o LogAll(Tail(us), clock)

AddUpdate(position, size) ==
    [kind |-> "add", position |-> position, size |-> size, id |-> 0]

\* position: where the voxel the caller looked up sits
RemoveUpdate(id, position) ==
    [kind |-> "remove", position |-> position, size |-> 0, id |-> id]

----------------------------------------------------------------------------
(* Handlers *)

\* `intersection.distance > 12`: the reach outside free-camera mode
REACH == 12

\* intersection.distance of the hit, or of the ground-plane point: within
\* reach and beyond it
Distances == {REACH - 8, REACH + 1}

\* no undo since the last build, destroy or tap
NoUndo == [phase |-> "none", before |-> {}]

NoReach == [distance |-> 0, isFreeCamera |-> TRUE, wrote |-> FALSE]

\* handleTap: a raycast hit on instance i with face normal n (-1 or 1 along
\* x), or the ground-plane fallback at raw x; then onAddVoxel
PlaceFromHit(i, n, size) ==
    LET pos == voxels[i].position
    IN  <<snapToGrid(pos[1] + n * size, size), snapToGrid(pos[2], size),
          snapToGrid(pos[3], size)>>

PlaceFromPlane(x, size) == <<snapToGrid(x, size), 0, snapToGrid(0, size)>>

InWorld(position) == position[1] \in RawCoords

\* the ray reaches the ground plane at raw x only past every rendered voxel:
\* no instance of the mesh (built from `voxels`) covers the point
PlaneReachable(x) ==
    \A i \in DOMAIN voxels :
        LET v == voxels[i]
        IN  ~(2 * (x - v.position[1]) <= v.size /\ 2 * (v.position[1] - x) <= v.size)

\* the face of instance i with normal n is hit only if no full-size voxel
\* sits against it
FaceVisible(i, n) ==
    \A j \in DOMAIN voxels :
        ~(voxels[j].size = Q /\ voxels[i].size = Q
          /\ voxels[j].position = <<voxels[i].position[1] + n * Q,
                                    voxels[i].position[2], voxels[i].position[3]>>)

handleTap ==
    /\ nOps < MaxOps
    /\ \E distance \in Distances, isFreeCamera \in BOOLEAN :
         lastReach' = [distance |-> distance, isFreeCamera |-> isFreeCamera, wrote |-> TRUE]
    /\ \E size \in Sizes :
         \E place \in {PlaceFromHit(i, n, size) :
                          <<i, n>> \in {h \in (DOMAIN voxels) \X {-1, 1} : FaceVisible(h[1], h[2])}}
                      \cup {PlaceFromPlane(x, size) : x \in {r \in RawCoords : PlaneReachable(r)}} :
            /\ InWorld(place)
            /\ updates' = Append(updates, AddUpdate(place, size))
            /\ undoStackRef' = Append(undoStackRef,
                  [type |-> "add", position |-> place, size |-> size, voxelId |-> 0])
            /\ redoStackRef' = <<>>
    /\ lastUndo' = NoUndo
    /\ nOps' = nOps + 1
    /\ UNCHANGED <<voxels, voxelMap, now, opLog, dragVoxels>>

\* handleDestroy: the raycast hits instance i; the voxel is looked up in
\* state.voxelMap under the instance's position and removed by its id
handleDestroy ==
    /\ nOps < MaxOps
    /\ \E i \in DOMAIN voxels, distance \in Distances, isFreeCamera \in BOOLEAN :
         LET key == KeyOf(voxels[i].position)
         IN  IF ~isFreeCamera /\ distance > REACH
             THEN /\ updates' = updates
                  /\ lastReach' = [distance |-> distance, isFreeCamera |-> isFreeCamera, wrote |-> FALSE]
             ELSE /\ key \in DOMAIN voxelMap
                  /\ updates' = Append(updates, RemoveUpdate(voxelMap[key].id, key))
                  /\ lastReach' = [distance |-> distance, isFreeCamera |-> isFreeCamera, wrote |-> TRUE]
    /\ nOps' = nOps + 1
    /\ UNCHANGED <<voxels, voxelMap, now, opLog, dragVoxels>>

\* one step of handlePointerMove's free-camera line drawing: onAddVoxel, then
\* "immediately capture the voxel ID" from state.voxelMap
DrawStep(st, x, size) ==
    LET place == PlaceFromPlane(x, size)
        key   == KeyOf(place)
    IN  [ups  |-> Append(st.ups, AddUpdate(place, size)),
         drag |-> IF key \in DOMAIN voxelMap
                  THEN Append(st.drag, [voxelId |-> voxelMap[key].id, position |-> place])
                  ELSE st.drag]

\* handlePointerMove in free camera: the points lerp(p1, p2, i / steps); the
\* model draws the segment's two ends (steps i = 1 .. 5 fall on them when
\* the pointer moved less than a cell)
handlePointerMove ==
    /\ nOps < MaxOps
    /\ \E size \in Sizes, x1 \in RawCoords, x2 \in RawCoords :
         LET s0 == [ups |-> updates, drag |-> dragVoxels]
             s1 == DrawStep(s0, x1, size)
             s2 == DrawStep(s1, x2, size)
         IN  /\ x2 - x1 \in {0, 1}
             /\ updates' = s2.ups
             /\ dragVoxels' = s2.drag
    /\ \E distance \in Distances :
         lastReach' = [distance |-> distance, isFreeCamera |-> TRUE, wrote |-> TRUE]
    /\ nOps' = nOps + 1
    /\ UNCHANGED <<voxels, voxelMap, now, opLog>>

\* updateTargetBlock, run every frame: the voxel instance under the screen
\* centre and its face normal, or none beyond the reach
updateTargetBlock(i, n, distance, isFreeCamera) ==
    IF ~isFreeCamera /\ distance > REACH THEN [found |-> FALSE, i |-> i, n |-> n]
    ELSE [found |-> TRUE, i |-> i, n |-> n]

\* the build button: a voxel against the targeted face
build ==
    /\ nOps < MaxOps
    /\ \E size \in Sizes, distance \in Distances, isFreeCamera \in BOOLEAN :
         \E h \in {h \in (DOMAIN voxels) \X {-1, 1} : FaceVisible(h[1], h[2])} :
            LET targetBlock == updateTargetBlock(h[1], h[2], distance, isFreeCamera)
            IN  /\ lastReach' = [distance |-> distance, isFreeCamera |-> isFreeCamera,
                                 wrote |-> targetBlock.found]
                /\ IF targetBlock.found
                   THEN /\ InWorld(PlaceFromHit(h[1], h[2], size))
                        /\ updates' = Append(updates, AddUpdate(PlaceFromHit(h[1], h[2], size), size))
                        /\ undoStackRef' = Append(undoStackRef,
                              [type |-> "add", position |-> PlaceFromHit(h[1], h[2], size),
                               size |-> size, voxelId |-> 0])
                        /\ redoStackRef' = <<>>
                   ELSE UNCHANGED <<updates, undoStackRef, redoStackRef>>
    /\ lastUndo' = NoUndo
    /\ nOps' = nOps + 1
    /\ UNCHANGED <<voxels, voxelMap, now, opLog, dragVoxels>>

\* the destroy button: the targeted voxel, if the map has its position
destroy ==
    /\ nOps < MaxOps
    /\ \E i \in DOMAIN voxels, distance \in Distances, isFreeCamera \in BOOLEAN :
         LET targetBlock == updateTargetBlock(i, 1, distance, isFreeCamera)
             key == KeyOf(voxels[i].position)
         IN  /\ lastReach' = [distance |-> distance, isFreeCamera |-> isFreeCamera,
                              wrote |-> targetBlock.found /\ key \in DOMAIN voxelMap]
             /\ IF targetBlock.found /\ key \in DOMAIN voxelMap
                THEN /\ undoStackRef' = Append(undoStackRef,
                           [type |-> "remove", position |-> voxels[i].position,
                            size |-> voxelMap[key].size, voxelId |-> voxelMap[key].id])
                     /\ redoStackRef' = <<>>
                     /\ updates' = Append(updates, RemoveUpdate(voxels[i].id, key))
                ELSE UNCHANGED <<updates, undoStackRef, redoStackRef>>
    /\ lastUndo' = NoUndo
    /\ nOps' = nOps + 1
    /\ UNCHANGED <<voxels, voxelMap, now, opLog, dragVoxels>>

\* React renders: the queued updaters run on the committed state, and the
\* effect on [voxels] rebuilds state.voxelMap
Render ==
    /\ updates # <<>>
    /\ voxels' = ApplyAll(voxels, updates, now)
    /\ voxelMap' = MapOf(voxels')
    /\ opLog' = opLog \o LogAll(updates, now)
    /\ updates' = <<>>
    /\ UNCHANGED <<now, dragVoxels, nOps, lastReach>>

\* a millisecond passes
ClockTick ==
    /\ now < StartClock + MaxClock
    /\ now' = now + 1
    /\ UNCHANGED <<voxels, updates, voxelMap, opLog, dragVoxels, nOps, lastReach>>

GridStart ==
    /\ voxels = InitialVoxels
    /\ updates = <<>>
    /\ voxelMap = MapOf(InitialVoxels)
    /\ now = StartClock
    /\ opLog = <<>>
    /\ dragVoxels = <<>>
    /\ nOps = 0
    /\ lastReach = NoReach

GridNext ==
    \/ handleTap /\ UNCHANGED <<playerVars, trafficVars, buildVars, knockVars, animation, chatVars>>
    \/ handleDestroy /\ UNCHANGED <<playerVars, trafficVars, buildVars, knockVars, sessionVars>>
    \/ handlePointerMove /\ UNCHANGED <<playerVars, trafficVars, buildVars, knockVars, sessionVars>>
    \/ build /\ UNCHANGED <<playerVars, trafficVars, buildVars, knockVars, animation, chatVars>>
    \/ destroy /\ UNCHANGED <<playerVars, trafficVars, buildVars, knockVars, animation, chatVars>>
    \/ Render /\ UNCHANGED <<playerVars, trafficVars, buildVars, knockVars, sessionVars>>
    \/ ClockTick /\ UNCHANGED <<playerVars, trafficVars, buildVars, knockVars, sessionVars>>

----------------------------------------------------------------------------
(* Claims about the voxel store *)

IsIntegerPosition(position) == \A c \in 1..3 : position[c] % Q = 0

\* every queued write has been rendered and the map rebuilt
Synced == updates = <<>>

\* C1: for every integer position p, once add(voxel at p) has been applied
\* occupied(p) is true, and once that same voxel has then been removed
\* occupied(p) is false.
C1_AddThenRemove ==
    Synced =>
      \A i \in DOMAIN opLog :
        LET a == opLog[i]
            p == a.position
        IN  (a.kind = "add" /\ IsIntegerPosition(p)) =>
              /\ i = Len(opLog) => isVoxelAt(p[1], p[2], p[3])
              /\ ( /\ i + 1 = Len(opLog)
                   /\ opLog[i + 1].kind = "remove"
                   /\ opLog[i + 1].id = a.id
                   /\ opLog[i + 1].position = p )
                 => ~isVoxelAt(p[1], p[2], p[3])

\* C2: a voxel add or remove is visible to the very next map lookup made
\* after the call returns: at every moment the map holds exactly the voxels
\* that the writes issued so far leave in the store.
C2_WritesVisibleAtOnce == voxelMap = MapOf(ApplyAll(voxels, updates, now))

\* C3: the voxel store never holds two voxels with the same position key.
C3_NoStacking ==
    \A i \in DOMAIN voxels : \A j \in DOMAIN voxels :
        KeyOf(voxels[i].position) = KeyOf(voxels[j].position) => i = j

\* C21: no two voxels of the store have the same id, whatever adds and
\* removes were issued, several adds within one millisecond included.
C21_UniqueIds ==
    \A i, j \in DOMAIN voxels : i # j => voxels[i].id # voxels[j].id

\* C20: a voxel is stored under the floored key of its position: once it is
\* in the store and the map is rebuilt, occupied(q) is true for every query
\* point q whose floored coordinates equal those of the voxel's position.
C20_FoundUnderFlooredKey ==
    Synced =>
      \A i \in DOMAIN voxels : \A dx \in 0 .. (Q - 1), dy \in 0 .. (Q - 1), dz \in 0 .. (Q - 1) :
        LET p == voxels[i].position
        IN  isVoxelAt(MathFloor(p[1]) + dx, MathFloor(p[2]) + dy, MathFloor(p[3]) + dz)

\* C15: outside free-camera mode no interaction (build button, destroy
\* button, screen tap, long-press) adds or removes a voxel when the point it
\* targets is more than 12 units away.
C15_NothingWrittenBeyondReach ==
    (lastReach.wrote /\ ~lastReach.isFreeCamera) => lastReach.distance <= REACH

----------------------------------------------------------------------------
(* The player: updatePlayer, VoxelWorld.tsx 1874-2004 *)


\* position units per world unit, velocity units per unit/second, frame
\* delta units per second
PU == 5 * 100
VU == 5 * 1
TU == 10 * 10

\* animate: delta = Math.min(clock.getDelta(), 0.1)
MaxDelta == TU \div 10

gravity == -20
JUMP_VELOCITY == 10
WALK_SPEED == 4
SPRINT_SPEED == 12

\* player.width / 2 = 0.8, player.height / 2 = 1.8
halfWidth == (8 * PU) \div 10
halfHeight == (18 * PU) \div 10

\* Math.floor of a world coordinate, as a cell index
CellOf(c) == c \div PU

\* isVoxelAt on world coordinates: the floored coordinates' key is looked up
isVoxelAtW(x, y, z) == <<CellOf(x) * Q, CellOf(y) * Q, CellOf(z) * Q>> \in DOMAIN voxelMap

\* checkCharacterVoxelCollision: the four footprint corners at three heights
\* (-height/2 + 0.51, 0, height/2 - 0.1)
BodyHeights == { (51 * PU) \div 100 - halfHeight, 0, halfHeight - PU \div 10 }

checkCharacterVoxelCollision(pos) ==
    \E dx \in {-halfWidth, halfWidth}, dz \in {-halfWidth, halfWidth}, dy \in BodyHeights :
        isVoxelAtW(pos[1] + dx, pos[2] + dy, pos[3] + dz)

\* the floor samples: the centre and the four footprint corners
checkPoints == {<<0, 0>>} \cup ({-halfWidth, halfWidth} \X {-halfWidth, halfWidth})

\* velocity.y += gravity * delta
GravityStep(vy, delta) == vy + (gravity * delta * VU) \div TU

\* position + velocity * delta, in position units
Advance(c, v, delta) == c + (v * delta * PU) \div (VU * TU)

\* lines 1944-1957: vertical resolution at the target; [y, vy, grounded]
ResolveVerticalSnap(next, vy) ==
    IF /\ vy <= 0
       /\ \E cp \in checkPoints :
             isVoxelAtW(next[1] + cp[1], next[2] - halfHeight, next[3] + cp[2])
    THEN [y |-> CellOf(next[2] - halfHeight) * PU + PU \div 2 + halfHeight,
          vy |-> 0, grounded |-> TRUE]
    ELSE [y |-> next[2], vy |-> vy, grounded |-> FALSE]

\* a variant that stops the fall without snapping the player onto the floor
ResolveVerticalNoSnap(next, vy) ==
    IF /\ vy <= 0
       /\ \E cp \in checkPoints :
             isVoxelAtW(next[1] + cp[1], next[2] - halfHeight, next[3] + cp[2])
    THEN [y |-> next[2], vy |-> 0, grounded |-> TRUE]
    ELSE [y |-> next[2], vy |-> vy, grounded |-> FALSE]

ResolveVertical(next, vy) == ResolveVerticalSnap(next, vy)

\* attemptMove(targetX, targetZ), lines 1960-1985: [ok, pos]
attemptMoveStepUp(pos, grounded, targetX, targetZ) ==
    IF ~checkCharacterVoxelCollision(<<targetX, pos[2], targetZ>>)
    THEN [ok |-> TRUE, pos |-> <<targetX, pos[2], targetZ>>]
    ELSE IF grounded /\ ~checkCharacterVoxelCollision(<<targetX, pos[2] + PU, targetZ>>)
    THEN [ok |-> TRUE, pos |-> <<targetX, pos[2] + PU, targetZ>>]
    ELSE [ok |-> FALSE, pos |-> pos]

\* a variant that takes the step without raising the player
attemptMoveFlatStep(pos, grounded, targetX, targetZ) ==
    IF ~checkCharacterVoxelCollision(<<targetX, pos[2], targetZ>>)
    THEN [ok |-> TRUE, pos |-> <<targetX, pos[2], targetZ>>]
    ELSE IF grounded /\ ~checkCharacterVoxelCollision(<<targetX, pos[2] + PU, targetZ>>)
    THEN [ok |-> TRUE, pos |-> <<targetX, pos[2], targetZ>>]
    ELSE [ok |-> FALSE, pos |-> pos]

\* a variant that steps up whether grounded or not
attemptMoveAirStep(pos, grounded, targetX, targetZ) ==
    IF ~checkCharacterVoxelCollision(<<targetX, pos[2], targetZ>>)
    THEN [ok |-> TRUE, pos |-> <<targetX, pos[2], targetZ>>]
    ELSE IF ~checkCharacterVoxelCollision(<<targetX, pos[2] + PU, targetZ>>)
    THEN [ok |-> TRUE, pos |-> <<targetX, pos[2] + PU, targetZ>>]
    ELSE [ok |-> FALSE, pos |-> pos]

attemptMove(pos, grounded, targetX, targetZ) ==
    attemptMoveStepUp(pos, grounded, targetX, targetZ)

\* lines 1987-1993: the direct move, then slide X, then slide Z
ResolveHorizontal(pos, grounded, nx, nz) ==
    LET a1 == attemptMove(pos, grounded, nx, nz)
    IN  IF a1.ok THEN a1.pos
        ELSE LET a2 == attemptMove(pos, grounded, nx, pos[3])
             IN  IF a2.ok THEN a2.pos
                 ELSE attemptMove(pos, grounded, pos[1], nz).pos

\* the horizontal velocities the input layer can ask for: moveDirection
\* (a unit vector) times SPEED, or none
Moves ==
    { <<0, 0>>,
      <<WALK_SPEED * VU, 0>>, <<-WALK_SPEED * VU, 0>>, <<0, WALK_SPEED * VU>>,
      <<SPRINT_SPEED * VU, 0>>,
      <<(3 * WALK_SPEED * VU) \div 5, (4 * WALK_SPEED * VU) \div 5>> }

\* updatePlayer(delta) on foot, outside free camera
updatePlayerStep(delta, move) ==
    \E vy1 \in {GravityStep(pvel[2], delta)} :
    \E next \in {<<Advance(ppos[1], move[1], delta), Advance(ppos[2], vy1, delta),
                   Advance(ppos[3], move[2], delta)>>} :
    \E vert \in {ResolveVertical(next, vy1)} :
    \E pos1 \in {<<ppos[1], vert.y, ppos[3]>>} :
        /\ pvel' = <<move[1], vert.vy, move[2]>>
        /\ isGrounded' = vert.grounded
        /\ ppos' = ResolveHorizontal(pos1, vert.grounded, next[1], next[3])
        /\ lastTick' = [target |-> <<next[1], next[3]>>, currentY |-> vert.y]

\* jump: () => { if (isGrounded && !isFreeCamera) velocity.y = 10 }
jump ==
    /\ isGrounded
    /\ pvel' = <<pvel[1], JUMP_VELOCITY * VU, pvel[3]>>
    /\ UNCHANGED <<ppos, isGrounded, frames, lastTick, maxDeltaSeen>>

NoTick == [target |-> <<0, 0>>, currentY |-> 0]

----------------------------------------------------------------------------
(* The world the player moves in, and the player specification *)

\* frames animated per behaviour
MaxFrames == 3
\* the floor spans cells -FloorHalf .. FloorHalf in x and z
FloorHalf == 3

GROUND_LEVEL == -1

FloorWidth == 2 * FloorHalf + 1

\* the cells of the floor, row by row
FloorCells ==
    [k \in 1 .. (FloorWidth * FloorWidth) |->
        <<((k - 1) \div FloorWidth) - FloorHalf, GROUND_LEVEL, ((k - 1) % FloorWidth) - FloorHalf>>]

\* a one-block ledge across the floor at x = 2, and a low ceiling over x <= -2
LedgeCells == [k \in 1 .. FloorWidth |-> <<2, GROUND_LEVEL + 1, k - 1 - FloorHalf>>]
CeilingCells ==
    [k \in 1 .. (2 * FloorWidth) |->
        <<((k - 1) \div FloorWidth) - 3, 4, ((k - 1) % FloorWidth) - FloorHalf>>]

\* the voxel array of a sequence of cells: integer positions, ids the indices
VoxelsOf(cs) ==
    [i \in DOMAIN cs |->
        [id |-> i - 1, position |-> <<cs[i][1] * Q, cs[i][2] * Q, cs[i][3] * Q>>, size |-> Q]]

\* createPlayer puts the player at (0, 3, 0); the other starts are standing
\* positions the player reaches from there
PlayerStarts ==
    { [pos |-> <<0, 3 * PU, 0>>, grounded |-> FALSE],
      [pos |-> <<0, GROUND_LEVEL * PU + PU \div 2 + halfHeight, 0>>, grounded |-> TRUE],
      [pos |-> <<PU, GROUND_LEVEL * PU + PU \div 2 + halfHeight, 0>>, grounded |-> TRUE],
      [pos |-> <<-2 * PU, GROUND_LEVEL * PU + PU \div 2 + halfHeight, 0>>, grounded |-> TRUE] }

GridIdle ==
    /\ updates = <<>>
    /\ now = StartClock
    /\ opLog = <<>>
    /\ dragVoxels = <<>>
    /\ nOps = 0
    /\ lastReach = NoReach

PlayerIdle ==
    /\ ppos = <<0, 3 * PU, 0>>
    /\ pvel = <<0, 0, 0>>
    /\ isGrounded = FALSE
    /\ frames = 0
    /\ lastTick = NoTick
    /\ maxDeltaSeen = 0

TrafficIdle ==
    /\ cars = <<>>
    /\ pedestrians = <<>>
    /\ train = [progress |-> 0]
    /\ ticks = 0
    /\ lastCars = <<>>
    /\ lastPeds = <<>>

\* no construction workers, no signs, no build requested
\* nothing pushed, no vehicle to collide
KnockIdle ==
    /\ spring = [offset |-> 0, dv |-> 0, n |-> 0, prev |-> 0, impulse |-> 0, fell |-> FALSE, hadFallen |-> FALSE]
    /\ pair = <<>>
    /\ drivableCars = <<>>
    /\ displacement = [cars |-> <<>>, peds |-> <<>>]
    /\ lastKnock = [frames |-> 0]

\* no frame under way, no chat, nothing to undo
SessionIdle ==
    /\ animation = [pc |-> 0]
    /\ gemini = [sessionPromise |-> 0, activeChatSession |-> "none", micStream |-> FALSE]
    /\ isTalking = <<>>
    /\ chat = [isChatting |-> FALSE]
    /\ undoStackRef = <<>>
    /\ redoStackRef = <<>>
    /\ lastUndo = NoUndo

BuildIdle ==
    /\ constructionWorkers = <<>>
    /\ forSaleSigns = {}
    /\ inFlight = {}
    /\ lastBuild = [calls |-> 0, frames |-> 0, sign |-> <<0, 0, 0>>, worker |-> 0,
                    queued |-> <<>>, placed |-> <<>>]
    /\ cash = 0

\* the editor alone: the player as created, no traffic
GridInit ==
    /\ SessionIdle
    /\ GridStart
    /\ PlayerIdle
    /\ TrafficIdle
    /\ BuildIdle
    /\ KnockIdle

----------------------------------------------------------------------------
(* Undo and redo of the build and destroy buttons *)

\* undo and redo presses per behaviour
MaxUndos == 2

\* the positions occupied once the queued writes are applied
Occupied == {v.position : v \in {ApplyAll(voxels, updates, now)[i] : i \in DOMAIN ApplyAll(voxels, updates, now)}}

\* performUndo: an added voxel is looked up in state.voxelMap and removed by
\* its id, a removed voxel is added again; the action moves to the redo stack
performUndo ==
    /\ nOps < MaxOps + MaxUndos
    /\ undoStackRef # <<>>
    /\ LET action == undoStackRef[Len(undoStackRef)]
           key == KeyOf(action.position)
       IN  /\ updates' =
                IF action.type = "add"
                THEN IF key \in DOMAIN voxelMap
                     THEN Append(updates, RemoveUpdate(voxelMap[key].id, key))
                     ELSE updates
                ELSE Append(updates, AddUpdate(action.position, action.size))
           /\ undoStackRef' = SubSeq(undoStackRef, 1, Len(undoStackRef) - 1)
           /\ redoStackRef' = Append(redoStackRef, action)
    /\ lastUndo' = [phase |-> "undone", before |-> Occupied]
    /\ nOps' = nOps + 1
    /\ UNCHANGED <<voxels, voxelMap, now, opLog, dragVoxels, lastReach>>

\* performRedo: an added voxel is added again, a removed voxel is removed by
\* the id it had when destroy recorded it; the action moves to the undo stack
performRedo ==
    /\ nOps < MaxOps + MaxUndos
    /\ redoStackRef # <<>>
    /\ LET action == redoStackRef[Len(redoStackRef)]
       IN  /\ updates' =
                IF action.type = "add"
                THEN Append(updates, AddUpdate(action.position, action.size))
                ELSE Append(updates, RemoveUpdate(action.voxelId, KeyOf(action.position)))
           /\ redoStackRef' = SubSeq(redoStackRef, 1, Len(redoStackRef) - 1)
           /\ undoStackRef' = Append(undoStackRef, action)
    /\ lastUndo' = [lastUndo EXCEPT !.phase = IF @ = "undone" THEN "redone" ELSE "none"]
    /\ nOps' = nOps + 1
    /\ UNCHANGED <<voxels, voxelMap, now, opLog, dragVoxels, lastReach>>

UndoInit ==
    /\ SessionIdle
    /\ GridStart
    /\ PlayerIdle
    /\ TrafficIdle
    /\ BuildIdle
    /\ KnockIdle

UndoNext ==
    \/ build /\ UNCHANGED <<playerVars, trafficVars, buildVars, knockVars, animation, chatVars>>
    \/ destroy /\ UNCHANGED <<playerVars, trafficVars, buildVars, knockVars, animation, chatVars>>
    \/ performUndo /\ UNCHANGED <<playerVars, trafficVars, buildVars, knockVars, animation, chatVars>>
    \/ performRedo /\ UNCHANGED <<playerVars, trafficVars, buildVars, knockVars, animation, chatVars>>
    \/ Render /\ UNCHANGED <<playerVars, trafficVars, buildVars, knockVars, sessionVars>>
    \/ ClockTick /\ UNCHANGED <<playerVars, trafficVars, buildVars, knockVars, sessionVars>>

\* C27: an undo followed at once by a redo leaves, once the writes are
\* applied, the positions occupied that were occupied before the undo,
\* whether the undone action was a build or a destroy.
C27_UndoRedoRestores ==
    (lastUndo.phase = "redone" /\ updates = <<>>) =>
        {voxels[i].position : i \in DOMAIN voxels} = lastUndo.before

PlayerInit ==
    /\ SessionIdle
    /\ voxels = VoxelsOf(FloorCells \o LedgeCells \o CeilingCells)
    /\ voxelMap = MapOf(voxels)
    /\ GridIdle
    /\ TrafficIdle
    /\ BuildIdle
    /\ KnockIdle
    /\ \E s \in PlayerStarts : ppos = s.pos /\ isGrounded = s.grounded
    /\ pvel = <<0, 0, 0>>
    /\ frames = 0
    /\ lastTick = NoTick
    /\ maxDeltaSeen = 0

\* frame deltas: 0.1 s (the clamp), 0.05 s and 0.02 s
DeltaChoices == {MaxDelta, MaxDelta \div 2, MaxDelta \div 5}

updatePlayer ==
    /\ frames < MaxFrames
    /\ \E delta \in DeltaChoices, move \in Moves : updatePlayerStep(delta, move)
    /\ frames' = frames + 1
    /\ UNCHANGED maxDeltaSeen

PlayerNext ==
    \/ updatePlayer /\ UNCHANGED <<gridVars, trafficVars, buildVars, knockVars, sessionVars>>
    \/ jump /\ UNCHANGED <<gridVars, trafficVars, buildVars, knockVars, sessionVars>>

----------------------------------------------------------------------------
(* Claims about the player *)

\* C6: at the end of every movement tick none of the sampled body corner
\* points of the player's resolved position lies in an occupied voxel (the
\* player starts free of overlap and the grid does not change).
C6_NoOverlapAfterTick == ~checkCharacterVoxelCollision(ppos)

\* the body samples of one height only
SamplesHit(pos, dy) ==
    \E dx \in {-halfWidth, halfWidth}, dz \in {-halfWidth, halfWidth} :
        isVoxelAtW(pos[1] + dx, pos[2] + dy, pos[3] + dz)

\* the last tick's target X/Z at the height vertical resolution left
TargetAtCurrentY == <<lastTick.target[1], lastTick.currentY, lastTick.target[2]>>
TargetOneBlockUp == <<lastTick.target[1], lastTick.currentY + PU, lastTick.target[2]>>

\* the target is blocked by a ledge one block high (only the lowest body
\* samples hit it) and the space above the ledge is free
LedgeAhead ==
    /\ SamplesHit(TargetAtCurrentY, (51 * PU) \div 100 - halfHeight)
    /\ ~SamplesHit(TargetAtCurrentY, 0)
    /\ ~SamplesHit(TargetAtCurrentY, halfHeight - PU \div 10)
    /\ ~checkCharacterVoxelCollision(TargetOneBlockUp)

\* C10: a player grounded in the tick that moves horizontally into a ledge
\* one block high with free space above it ends the tick at the target X/Z
\* with y raised by exactly one block.
C10_StepUp ==
    (frames > 0 /\ isGrounded /\ LedgeAhead) => ppos = TargetOneBlockUp

C10_Witness ==
    frames > 0 /\ isGrounded /\ LedgeAhead /\ ppos = TargetOneBlockUp
       /\ ppos[2] = GROUND_LEVEL * PU + PU \div 2 + halfHeight + PU

\* C22: in a tick that vertical resolution leaves not grounded, the
\* horizontal move, blocked or not, does not raise the player: y stays where
\* vertical resolution put it.
C22_NoStepUpInTheAir ==
    (frames > 0 /\ ~isGrounded) => ppos[2] = lastTick.currentY

\* an airborne player ran into a ledge with free space above it and was not
\* lifted onto it
C22_Witness ==
    frames > 0 /\ ~isGrounded /\ LedgeAhead /\ ppos[2] = lastTick.currentY
       /\ ppos[1] # lastTick.target[1]

\* the five floor samples (centre and corners) of the last tick's target, at
\* the feet height vertical resolution left
FeetSamplesHit ==
    \E cp \in checkPoints :
        isVoxelAtW(lastTick.target[1] + cp[1], lastTick.currentY - halfHeight,
                   lastTick.target[2] + cp[2])

\* C11 (as stated): when a descending player's floor samples hit a floor
\* voxel in the step, after vertical resolution none of the floor samples at
\* y - height/2 lies inside an occupied voxel.
C11_FeetOutsideVoxels == (frames > 0 /\ isGrounded) => ~FeetSamplesHit

\* C11 (amended): when a descending player's floor samples hit a floor voxel
\* in the step, vertical resolution leaves the feet exactly half a block above
\* the lower face of the cell that was hit, so a floor sample is still inside
\* that cell; the lowest body samples, 0.51 above the feet, are above it.
C11_FeetHalfWayUpHitCell ==
    (frames > 0 /\ isGrounded) =>
        /\ lastTick.currentY - halfHeight
              = CellOf(lastTick.currentY - halfHeight) * PU + PU \div 2
        /\ FeetSamplesHit
        /\ CellOf(lastTick.currentY - halfHeight + (51 * PU) \div 100)
              = CellOf(lastTick.currentY - halfHeight) + 1

\* a landing on the floor after a fall from the height the player is created at
C11_Witness ==
    /\ frames > 0 /\ isGrounded /\ FeetSamplesHit
    /\ pvel[2] = 0
    /\ lastTick.currentY - halfHeight = GROUND_LEVEL * PU + PU \div 2
    /\ ppos[2] = lastTick.currentY

----------------------------------------------------------------------------
(* Path followers: autonomous cars, pedestrians and the train.
   Positions are in tenths of a unit, speeds in hundredths of a unit per
   second, progress in millionths of the curve; the closed car curves are
   followed along the polygon of their control points. *)

CU == 2 * 5
SU == 10 * 10
PRG == 1000 * 1000

Abs(n) == IF n < 0 THEN -n ELSE n
Max(a, b) == IF a > b THEN a ELSE b
Min(a, b) == IF a < b THEN a ELSE b
Sign(n) == IF n > 0 THEN 1 ELSE IF n < 0 THEN -1 ELSE 0

RECURSIVE ISqrtIter(_, _, _)
ISqrtIter(n, lo, hi) ==
    IF hi - lo <= 1 THEN lo
    ELSE LET mid == (lo + hi) \div 2
         IN  IF mid * mid <= n THEN ISqrtIter(n, mid, hi) ELSE ISqrtIter(n, lo, mid)

\* floor of the square root, for n below 40000^2
ISqrt(n) == ISqrtIter(n, 0, 40000)

\* Vector3.distanceTo in the plane, squared and not
Dist2(a, b) == (a[1] - b[1]) * (a[1] - b[1]) + (a[2] - b[2]) * (a[2] - b[2])
Dist(a, b) == ISqrt(Dist2(a, b))

roadX == <<-96, -24, 36, 96>>
roadZ == <<-84, -24, 0, 72>>
LANE_OFFSET == 5
cornerOffset == 16
\* CAR_Y_LEVEL = 0.5 above the centers' y = 0, in tenths
CAR_Y_LEVEL == 5

\* roadX.forEach(x => roadZ.forEach(z => push(x, 0, z))): registration order
intersectionCenters ==
    [k \in 1 .. 16 |-> <<roadX[((k - 1) \div 4) + 1] * CU, roadZ[((k - 1) % 4) + 1] * CU>>]

createCWPath(x1, z1, x2, z2) ==
    LET left == x1 + LANE_OFFSET   right == x2 - LANE_OFFSET
        bottom == z1 + LANE_OFFSET  top == z2 - LANE_OFFSET
        pts == << <<right, top + cornerOffset>>, <<right, top>>,
                  <<right - cornerOffset, top>>, <<left + cornerOffset, top>>,
                  <<left, top>>, <<left, top - cornerOffset>>,
                  <<left, bottom + cornerOffset>>, <<left, bottom>>,
                  <<left + cornerOffset, bottom>>, <<right - cornerOffset, bottom>>,
                  <<right, bottom>>, <<right, bottom + cornerOffset>> >>
    IN  [i \in 1 .. 12 |-> <<pts[i][1] * CU, pts[i][2] * CU>>]

createCCWPath(x1, z1, x2, z2) ==
    LET left == x1 - LANE_OFFSET   right == x2 + LANE_OFFSET
        bottom == z1 - LANE_OFFSET  top == z2 + LANE_OFFSET
        pts == << <<left, top - cornerOffset>>, <<left, top>>,
                  <<left + cornerOffset, top>>, <<right - cornerOffset, top>>,
                  <<right, top>>, <<right, top - cornerOffset>>,
                  <<right, bottom + cornerOffset>>, <<right, bottom>>,
                  <<right - cornerOffset, bottom>>, <<left + cornerOffset, bottom>>,
                  <<left, bottom>>, <<left, bottom + cornerOffset>> >>
    IN  [i \in 1 .. 12 |-> <<pts[i][1] * CU, pts[i][2] * CU>>]

\* the curves of cars 0, 1 and 3: curves[i % curves.length]; the two loops of
\* the first block and the outer loop of the block next to it in z
curves ==
    << createCWPath(roadX[1], roadZ[1], roadX[2], roadZ[2]),
       createCCWPath(roadX[1], roadZ[1], roadX[2], roadZ[2]),
       createCCWPath(roadX[1], roadZ[2], roadX[2], roadZ[3]) >>

\* point k of a closed curve, the first again after the last
ClosedPoint(pts, k) == pts[((k - 1) % Len(pts)) + 1]

\* the corners of these curves are joined by axis-parallel pieces
SegLen(a, b) == Abs(a[1] - b[1]) + Abs(a[2] - b[2])

RECURSIVE LengthFrom(_, _)
LengthFrom(pts, k) ==
    IF k > Len(pts) THEN 0
    ELSE SegLen(ClosedPoint(pts, k), ClosedPoint(pts, k + 1)) + LengthFrom(pts, k + 1)

\* curve.getLength()
getLength(pts) == LengthFrom(pts, 1)

\* arc length of a progress value on a curve of length len
ArcOf(progress, len) == ((progress \div 100) * len) \div (PRG \div 100)

\* the piece of the closed curve that holds arc length s: [k, rest]
RECURSIVE PieceAt(_, _, _)
PieceAt(pts, k, s) ==
    LET l == SegLen(ClosedPoint(pts, k), ClosedPoint(pts, k + 1))
    IN  IF s < l \/ k = Len(pts) THEN [k |-> k, rest |-> Min(s, l)]
        ELSE PieceAt(pts, k + 1, s - l)

Direction(a, b) == <<Sign(b[1] - a[1]), Sign(b[2] - a[2])>>

\* curve.getPointAt(progress) on a closed curve
getPointAt(pts, progress) ==
    LET pc == PieceAt(pts, 1, ArcOf(progress, getLength(pts)))
        a == ClosedPoint(pts, pc.k)
        d == Direction(a, ClosedPoint(pts, pc.k + 1))
    IN  <<a[1] + d[1] * pc.rest, a[2] + d[2] * pc.rest>>

\* the heading mesh.lookAt gives a car at progress: the curve's direction
TangentAt(pts, progress) ==
    LET pc == PieceAt(pts, 1, ArcOf(progress, getLength(pts)))
    IN  Direction(ClosedPoint(pts, pc.k), ClosedPoint(pts, pc.k + 1))

\* (progress + x) % 1
WrapProgress(progress) == progress % PRG

\* a variant that lets progress run past the end of the curve
NoWrapProgress(progress) == progress

StepClosedProgress(progress) == WrapProgress(progress)

\* (speed / pathLength) * delta, in progress units
progressDelta(speed, pathLength, delta) == (speed * delta * (PRG \div 1000)) \div pathLength

----------------------------------------------------------------------------
(* updateCars: car following, intersection yield, speed and progress *)

INTERSECTION_RADIUS == 20
YIELD_DISTANCE == 25
\* 1.6 s, in tenths
SAFE_TIME_HEADWAY == 16
MIN_DISTANCE == 6
\* 1.5 and 3.0 units per second squared, in hundredths
MAX_ACCEL == 150
MAX_DECEL == 300
JAM_THRESHOLD == 3

Dot(a, b) == a[1] * b[1] + a[2] * b[2]

\* the squared distance between a car (y = 0.5) and a center (y = 0)
CenterDist2(pos, center) == Dist2(pos, center) + CAR_Y_LEVEL * CAR_Y_LEVEL

\* lines 2694-2702: the cars roughly ahead of car i within YIELD_DISTANCE
Ahead(i) ==
    {j \in DOMAIN cars :
        /\ j # i
        /\ LET toOther == <<cars[j].pos[1] - cars[i].pos[1], cars[j].pos[2] - cars[i].pos[2]>>
               d2 == Dot(toOther, toOther)
               along == Dot(cars[i].fwd, toOther)
           IN  /\ d2 < (YIELD_DISTANCE * CU) * (YIELD_DISTANCE * CU)
               /\ along > 0
               /\ along * along * 10000 > 85 * 85 * d2}

\* leadCarInfo.distance: the distance of the nearest car ahead, in tenths
leadDistance(i) ==
    LET ds == {Dist(cars[i].pos, cars[j].pos) : j \in Ahead(i)}
    IN  CHOOSE d \in ds : \A e \in ds : d <= e

\* lines 2703-2709: the target speed car following leaves
followTarget(i) ==
    IF Ahead(i) = {} THEN cars[i].desiredSpeed
    ELSE LET effectiveMinDistance ==
                 IF cars[i].timeStationary > JAM_THRESHOLD * SU
                 THEN (MIN_DISTANCE * CU) \div 2 ELSE MIN_DISTANCE * CU
             safeDistance == effectiveMinDistance + (cars[i].speed * SAFE_TIME_HEADWAY) \div SU
             d == leadDistance(i)
         IN  IF d < safeDistance THEN (cars[i].desiredSpeed * d) \div safeDistance
             ELSE cars[i].desiredSpeed

\* car.path.getPointAt((car.progress + 0.05) % 1)
lookAheadPos(i) ==
    getPointAt(curves[cars[i].path], (cars[i].progress + PRG \div 20) % PRG)

\* lines 2711-2714: the first registered center the car approaches, or 0
approachingIntersection(i) ==
    LET look == lookAheadPos(i)
        near == {k \in DOMAIN intersectionCenters :
                    /\ CenterDist2(look, intersectionCenters[k])
                         < (YIELD_DISTANCE * CU) * (YIELD_DISTANCE * CU)
                    /\ CenterDist2(cars[i].pos, intersectionCenters[k])
                         > (INTERSECTION_RADIUS * CU) * (INTERSECTION_RADIUS * CU)}
    IN  IF near = {} THEN 0 ELSE CHOOSE k \in near : \A m \in near : k <= m

\* lines 2715-2724: another car inside the radius of center k crosses car i
crossingInside(i, k) ==
    \E j \in DOMAIN cars :
        /\ j # i
        /\ CenterDist2(cars[j].pos, intersectionCenters[k])
             < (INTERSECTION_RADIUS * CU) * (INTERSECTION_RADIUS * CU)
        /\ 2 * Abs(Dot(cars[i].fwd, cars[j].fwd)) < 1

\* a variant in which no car ever yields
crossingIgnored(i, k) == FALSE

mustYield(i, k) == crossingInside(i, k)

targetSpeed(i) ==
    LET k == approachingIntersection(i)
    IN  IF k # 0 /\ mustYield(i, k) THEN 0 ELSE followTarget(i)

\* lines 2725-2727
acceleration(target, speed) == Max(-MAX_DECEL, Min(MAX_ACCEL, (target - speed) * 2))

\* lines 2732-2733: car.speed += acceleration * delta, then the clamp
IntegrateSpeedClamped(speed, accel, delta, desiredSpeed) ==
    Max(0, Min(desiredSpeed, speed + (accel * delta) \div SU))

\* a variant that adds the acceleration once per frame and does not clamp
IntegrateSpeedPerFrame(speed, accel, delta, desiredSpeed) == speed + accel

IntegrateSpeed(speed, accel, delta, desiredSpeed) ==
    IntegrateSpeedClamped(speed, accel, delta, desiredSpeed)

\* the second loop of updateCars for one car, given its target speed
stepCar(car, target, delta) ==
    LET pts == curves[car.path]
        speed1 == IntegrateSpeed(car.speed, acceleration(target, car.speed), delta, car.desiredSpeed)
        progress1 == StepClosedProgress(car.progress + progressDelta(speed1, getLength(pts), delta))
    IN  [car EXCEPT
            !.speed = speed1,
            !.timeStationary =
                IF speed1 < SU \div 2
                THEN Min(car.timeStationary + delta, JAM_THRESHOLD * SU + 1)
                ELSE 0,
            !.progress = progress1,
            !.pos = getPointAt(pts, progress1),
            !.fwd = TangentAt(pts, progress1)]

updateCars(delta) ==
    /\ cars' = [i \in DOMAIN cars |-> stepCar(cars[i], targetSpeed(i), delta)]
    /\ lastCars' = [i \in DOMAIN cars |->
            [pos |-> cars[i].pos, fwd |-> cars[i].fwd, look |-> lookAheadPos(i),
             progress |-> cars[i].progress, target |-> targetSpeed(i)]]

\* state.train: speed 25, on the loop along the edge of the world
worldSize == 320
TRAIN_SPEED == 25

trainPathPoints ==
    LET b == (worldSize \div 2 - 3) * CU
        r == 10 * CU
    IN  << <<b - r, b>>, <<b, b - r>>, <<b, r - b>>, <<b - r, -b>>,
           <<r - b, -b>>, <<-b, r - b>>, <<-b, b - r>>, <<r - b, b>> >>

RECURSIVE ChordsFrom(_, _)
ChordsFrom(pts, k) ==
    IF k > Len(pts) THEN 0
    ELSE Dist(ClosedPoint(pts, k), ClosedPoint(pts, k + 1)) + ChordsFrom(pts, k + 1)

updateTrain(delta) ==
    LET pathLength == ChordsFrom(trainPathPoints, 1)
    IN  train' = [train EXCEPT !.progress =
            StepClosedProgress(train.progress + progressDelta(TRAIN_SPEED * SU, pathLength, delta))]

----------------------------------------------------------------------------
(* updatePedestrians: sidewalk curves, boundary reroutes, bridges, bounces.
   The pedestrian keeps its offset at zero: no car comes within reach of it. *)

SEARCH_RADIUS == 40
\* FOLLOW_SPEED = 4.5 and MIN_DIST = 2.5, in tenths
FOLLOW_SPEED == 45
MIN_DIST == 25
\* ROADWAY_HALF_WIDTH + SIDEWALK_WIDTH / 2 = 8 + 1 + 3
SIDEWALK_OFFSET == 12

\* the stretches between consecutive roads, 10 in from each, at least 20 long
Stretches(road) ==
    {<<road[i] + 10, road[i + 1] - 10>> : i \in 1 .. (Len(road) - 1)}
        \ {st \in {<<road[i] + 10, road[i + 1] - 10>> : i \in 1 .. (Len(road) - 1)} :
              Abs(st[2] - st[1]) < 20}

Curve(a, b) == [from |-> <<a[1] * CU, a[2] * CU>>, to |-> <<b[1] * CU, b[2] * CU>>, bridge |-> FALSE]

sidewalkPaths ==
    {Curve(<<roadX[i] + side, st[1]>>, <<roadX[i] + side, st[2]>>) :
        i \in DOMAIN roadX, side \in {SIDEWALK_OFFSET, -SIDEWALK_OFFSET}, st \in Stretches(roadZ)}
    \cup
    {Curve(<<st[1], roadZ[i] + side>>, <<st[2], roadZ[i] + side>>) :
        i \in DOMAIN roadZ, side \in {SIDEWALK_OFFSET, -SIDEWALK_OFFSET}, st \in Stretches(roadX)}

\* getLength and getPointAt of a curve through two points
curveLength(path) == Dist(path.from, path.to)

Lerp(a, b, progress) == a + ((b - a) * (progress \div 100)) \div (PRG \div 100)

curvePointAt(path, progress) ==
    <<Lerp(path.from[1], path.to[1], progress), Lerp(path.from[2], path.to[2], progress)>>

\* lines 1725-1736: the ends of other sidewalk curves within SEARCH_RADIUS
Candidates(path, currentPos) ==
    {c \in [path : sidewalkPaths \ {path}, startT : {0, 1}] :
        Dist2(currentPos, IF c.startT = 0 THEN c.path.from ELSE c.path.to)
            < (SEARCH_RADIUS * CU) * (SEARCH_RADIUS * CU)}

\* lines 1740-1750: take the chosen curve, over a bridge if it is not at hand
Reroute(ped, choice) ==
    LET target == IF choice.startT = 0 THEN choice.path.from ELSE choice.path.to
    IN  IF Dist2(ped.pos, target) > (2 * CU) * (2 * CU)
        THEN [ped EXCEPT !.path = [from |-> ped.pos, to |-> target, bridge |-> TRUE],
                         !.progress = 0,
                         !.speed = Abs(ped.speed)]
        ELSE [ped EXCEPT !.path = choice.path,
                         !.progress = choice.startT * PRG,
                         !.speed = IF choice.startT = 0 THEN Abs(ped.speed) ELSE -Abs(ped.speed)]

\* ped.speed *= -1
BounceFlip(speed) == -speed

\* a variant that leaves the speed as it is
BounceKeep(speed) == speed

Bounce(speed) == BounceFlip(speed)

\* lines 1708-1718: advance and clamp; [progress, reachedEnd]
AdvanceClamped(progress, speed, pathLength, delta) ==
    LET p1 == progress + progressDelta(speed, pathLength, delta)
    IN  IF speed > 0 /\ p1 >= PRG THEN [progress |-> PRG, reachedEnd |-> TRUE]
        ELSE IF speed < 0 /\ p1 <= 0 THEN [progress |-> 0, reachedEnd |-> TRUE]
        ELSE [progress |-> p1, reachedEnd |-> FALSE]

\* lines 1665-1704: one step towards the player, the path logic skipped
followStep(ped, delta) ==
    LET playerPos == <<(ppos[1] * CU) \div PU, (ppos[3] * CU) \div PU>>
        dist == Dist(ped.pos, playerPos)
    IN  IF Dist2(ped.pos, playerPos) > MIN_DIST * MIN_DIST
        THEN [ped EXCEPT !.pos =
                 <<ped.pos[1] + ((playerPos[1] - ped.pos[1]) * FOLLOW_SPEED * delta) \div (TU * dist),
                   ped.pos[2] + ((playerPos[2] - ped.pos[2]) * FOLLOW_SPEED * delta) \div (TU * dist)>>]
        ELSE ped

\* lines 1706-1768 for one pedestrian and one outcome of pickRandom
pathStep(ped, delta, pick) ==
    LET adv == AdvanceClamped(ped.progress, ped.speed, curveLength(ped.path), delta)
        moved == [ped EXCEPT !.progress = adv.progress]
        cands == Candidates(ped.path, ped.pos)
        routed == IF ~adv.reachedEnd THEN moved
                  ELSE IF cands # {} THEN Reroute(moved, pick)
                  ELSE [moved EXCEPT !.speed = Bounce(ped.speed)]
    IN  [routed EXCEPT !.pos = curvePointAt(routed.path, routed.progress)]

\* what pickRandom can return for a pedestrian this tick
Picks(ped, delta) ==
    LET adv == AdvanceClamped(ped.progress, ped.speed, curveLength(ped.path), delta)
        cands == Candidates(ped.path, ped.pos)
    IN  IF adv.reachedEnd /\ ~ped.isFollowingPlayer /\ cands # {} THEN cands
        ELSE {[path |-> ped.path, startT |-> 0]}

\* whether this tick bounces the pedestrian off the end of its curve
Bounces(ped, delta) ==
    /\ ~ped.isFollowingPlayer
    /\ AdvanceClamped(ped.progress, ped.speed, curveLength(ped.path), delta).reachedEnd
    /\ Candidates(ped.path, ped.pos) = {}

\* choice.dist of a candidate, squared
candidateDist2(currentPos, c) ==
    Dist2(currentPos, IF c.startT = 0 THEN c.path.from ELSE c.path.to)

\* history of a tick: whether the pedestrian took a new curve at a boundary,
\* the candidate pickRandom returned, the point the candidates were measured
\* from, and the squared distance of the nearest candidate
RerouteLog(ped, delta, pick) ==
    LET cands == Candidates(ped.path, ped.pos)
        near == {candidateDist2(ped.pos, c) : c \in cands}
    IN  IF pick \in cands /\ Picks(ped, delta) = cands
        THEN [rerouted |-> TRUE, choice |-> pick, currentPos |-> ped.pos,
              nearest |-> CHOOSE d \in near : \A e \in near : d <= e]
        ELSE [rerouted |-> FALSE, choice |-> pick, currentPos |-> ped.pos, nearest |-> 0]

stepPedestrian(ped, delta, pick) ==
    IF ped.isFollowingPlayer THEN followStep(ped, delta)
    ELSE IF curveLength(ped.path) > 0 THEN pathStep(ped, delta, pick)
    ELSE ped

updatePedestrians(delta) ==
    \E picks \in [DOMAIN pedestrians -> UNION {Picks(pedestrians[i], delta) : i \in DOMAIN pedestrians}] :
        /\ \A i \in DOMAIN pedestrians : picks[i] \in Picks(pedestrians[i], delta)
        /\ pedestrians' = [i \in DOMAIN pedestrians |-> stepPedestrian(pedestrians[i], delta, picks[i])]
        /\ lastPeds' = [i \in DOMAIN pedestrians |->
               ( IF Bounces(pedestrians[i], delta)
                 THEN [bounce |-> 1, preSpeed |-> pedestrians[i].speed, delta |-> delta]
                 ELSE IF lastPeds[i].bounce = 1 /\ ~pedestrians[i].isFollowingPlayer
                 THEN [bounce |-> 2, preSpeed |-> lastPeds[i].preSpeed, delta |-> delta]
                 ELSE [bounce |-> 0, preSpeed |-> 0, delta |-> delta] )
               @@ RerouteLog(pedestrians[i], delta, picks[i])]

\* the followPlayer tool: ped.isFollowingPlayer = args.shouldFollow
followPlayer ==
    /\ \E i \in DOMAIN pedestrians, shouldFollow \in BOOLEAN :
         /\ pedestrians[i].isFollowingPlayer # shouldFollow
         /\ pedestrians' = [pedestrians EXCEPT ![i].isFollowingPlayer = shouldFollow]
    /\ UNCHANGED <<cars, train, ticks, lastCars, lastPeds>>

----------------------------------------------------------------------------
(* The traffic specification: cars 0 and 1 around the first block, one
   pedestrian by the crossing of the roads x = 96 and z = 72, the train,
   and the player standing beyond the road grid *)

\* traffic frames animated per behaviour
MaxTicks == 2

\* 8 + Math.random() * 7, in hundredths: the ends of the range
DesiredSpeeds == {8 * SU, 15 * SU}

\* car 0: heading -z next to car 1's lane, heading -x inside the radius of
\* the center (-24, -24), and just before the end of its loop
CarProgress0 == {7813, 85938, 999000}
\* car 1: heading +x towards (-24, -24) from outside its radius, and heading
\* -z inside it
CarProgress1 == {233553, 342105}

\* a car as constructed (speed 0, facing +z), or one that is under way
NewCar(path, progress, desiredSpeed, underWay) ==
    [path |-> path, progress |-> progress, desiredSpeed |-> desiredSpeed,
     speed |-> IF underWay THEN desiredSpeed ELSE 0,
     timeStationary |-> 0,
     pos |-> getPointAt(curves[path], progress),
     fwd |-> IF underWay THEN TangentAt(curves[path], progress) ELSE <<0, 1>>]

\* where the player stands: outside the road grid, on the ground
FarPlayer == <<-140 * PU, GROUND_LEVEL * PU + PU \div 2 + halfHeight, -140 * PU>>

SidewalkA == Curve(<<46, 72 - SIDEWALK_OFFSET>>, <<86, 72 - SIDEWALK_OFFSET>>)
BridgeA == [from |-> SidewalkA.to, to |-> <<(96 - SIDEWALK_OFFSET) * CU, 62 * CU>>, bridge |-> TRUE]

NewPedestrian(path, progress, speed) ==
    [path |-> path, progress |-> progress, speed |-> speed,
     pos |-> curvePointAt(path, progress), isFollowingPlayer |-> FALSE]

\* Math.random() * 1.5 + 1.5, either way: pedestrians about to reach an end
\* of a sidewalk, in the middle of it, about to leave a bridge, and two that
\* have followed the player out of the road grid
PedestrianStarts ==
    { NewPedestrian(SidewalkA, 995000, 3 * SU),
      NewPedestrian(SidewalkA, 2000, -3 * SU),
      NewPedestrian(SidewalkA, 500000, (3 * SU) \div 2),
      NewPedestrian(BridgeA, 950000, 3 * SU),
      [NewPedestrian(SidewalkA, 995000, 3 * SU) EXCEPT
          !.pos = <<-140 * CU + 30, -140 * CU + 40>>, !.isFollowingPlayer = TRUE],
      [NewPedestrian(SidewalkA, 3000, -(3 * SU) \div 2) EXCEPT
          !.pos = <<-140 * CU + 10, -140 * CU>>, !.isFollowingPlayer = TRUE] }

NoBounce ==
    [bounce |-> 0, preSpeed |-> 0, delta |-> 0, rerouted |-> FALSE,
     choice |-> [path |-> SidewalkA, startT |-> 0], currentPos |-> <<0, 0>>, nearest |-> 0]

TrafficInit ==
    /\ SessionIdle
    /\ GridStart
    /\ BuildIdle
    /\ KnockIdle
    /\ ppos = FarPlayer
    /\ pvel = <<0, 0, 0>>
    /\ isGrounded = TRUE
    /\ frames = 0
    /\ lastTick = NoTick
    /\ maxDeltaSeen = 0
    /\ \E p0 \in CarProgress0, p1 \in CarProgress1, d0 \in DesiredSpeeds, underWay \in BOOLEAN :
         cars = <<NewCar(1, p0, d0, underWay), NewCar(2, p1, 15 * SU, underWay)>>
    /\ \E p \in PedestrianStarts : pedestrians = <<p>>
    /\ train = [progress |-> 998000]
    /\ ticks = 0
    /\ lastCars = [i \in DOMAIN cars |->
          [pos |-> cars[i].pos, fwd |-> cars[i].fwd, look |-> cars[i].pos,
           progress |-> cars[i].progress, target |-> cars[i].desiredSpeed]]
    /\ lastPeds = <<NoBounce>>

\* frame deltas of the traffic: Math.min(clock.getDelta(), 0.1)
TrafficDeltas == {0, MaxDelta \div 2, MaxDelta}

\* animate: updateCars, updatePedestrians, updateTrain under one delta
animateTraffic ==
    /\ ticks < MaxTicks
    /\ \E delta \in TrafficDeltas :
         /\ updateCars(delta)
         /\ updatePedestrians(delta)
         /\ updateTrain(delta)
    /\ ticks' = ticks + 1

TrafficNext ==
    \/ animateTraffic /\ UNCHANGED <<gridVars, playerVars, buildVars, knockVars, sessionVars>>
    \/ followPlayer /\ UNCHANGED <<gridVars, playerVars, buildVars, knockVars, sessionVars>>

----------------------------------------------------------------------------
(* Claims about the path followers *)

\* C4: for every pedestrian, every autonomous car and the train, progress is
\* in [0,1] after every tick, for frame deltas in [0, 0.1], across boundary
\* reroutes, bridge curves and bounces; on the closed loops it wraps.
C4_ProgressInRange ==
    /\ \A i \in DOMAIN pedestrians : pedestrians[i].progress >= 0 /\ pedestrians[i].progress <= PRG
    /\ \A i \in DOMAIN cars : cars[i].progress >= 0 /\ cars[i].progress <= PRG
    /\ train.progress >= 0 /\ train.progress <= PRG

\* a car has wrapped around the end of its loop while a pedestrian was on a bridge
C4_Witness ==
    /\ ticks > 0
    /\ \E i \in DOMAIN cars : cars[i].progress < lastCars[i].progress
    /\ \E i \in DOMAIN pedestrians : pedestrians[i].path.bridge /\ pedestrians[i].progress > 0

\* C5: after every traffic update every autonomous vehicle has
\* 0 <= speed <= desiredSpeed, whatever the frame delta and the positions
\* and speeds of the other vehicles.
C5_SpeedInRange ==
    \A i \in DOMAIN cars : cars[i].speed >= 0 /\ cars[i].speed <= cars[i].desiredSpeed

\* a car that was told to stop is slowing down next to one at full speed
C5_Witness ==
    /\ ticks > 0
    /\ \E i, j \in DOMAIN cars :
         /\ lastCars[i].target = 0 /\ cars[i].speed > 0 /\ cars[i].speed < cars[i].desiredSpeed
         /\ cars[j].speed = cars[j].desiredSpeed

\* C7: when a pedestrian reaches a progress boundary and no end of another
\* sidewalk curve is within the search radius, the sign of its speed is
\* flipped in that tick, and after the next tick its progress is still in
\* [0,1] and has moved back off the boundary (for a positive delta).
C7_BounceTurnsBack ==
    \A i \in DOMAIN pedestrians :
        /\ lastPeds[i].bounce = 1 =>
              /\ Sign(pedestrians[i].speed) = -Sign(lastPeds[i].preSpeed)
              /\ pedestrians[i].speed # 0
        /\ lastPeds[i].bounce = 2 =>
              /\ pedestrians[i].progress >= 0 /\ pedestrians[i].progress <= PRG
              /\ lastPeds[i].delta > 0 =>
                    IF lastPeds[i].preSpeed > 0 THEN pedestrians[i].progress < PRG
                    ELSE pedestrians[i].progress > 0

\* a pedestrian bounced one tick ago and has since walked back
C7_Witness ==
    \E i \in DOMAIN pedestrians :
        lastPeds[i].bounce = 2 /\ lastPeds[i].delta > 0 /\ lastPeds[i].preSpeed > 0

\* C16: a pedestrian that reaches a progress boundary with candidates in
\* reach takes the nearest candidate endpoint: within the tolerance of 2 it
\* continues on that curve from that end, travelling away from it; otherwise
\* it gets a two-point bridge from its current point to that endpoint, at
\* progress 0 with positive speed.
C16_TakesNearestEndpoint ==
    \A i \in DOMAIN pedestrians :
        lastPeds[i].rerouted =>
            LET choice == lastPeds[i].choice
                target == IF choice.startT = 0 THEN choice.path.from ELSE choice.path.to
                ped == pedestrians[i]
            IN  /\ candidateDist2(lastPeds[i].currentPos, choice) = lastPeds[i].nearest
                /\ IF lastPeds[i].nearest <= (2 * CU) * (2 * CU)
                   THEN /\ ped.path = choice.path
                        /\ ped.progress = choice.startT * PRG
                        /\ IF choice.startT = 0 THEN ped.speed > 0 ELSE ped.speed < 0
                   ELSE /\ ped.path = [from |-> lastPeds[i].currentPos, to |-> target, bridge |-> TRUE]
                        /\ ped.progress = 0
                        /\ ped.speed > 0

InsideRadius(pos, center) ==
    Dist2(pos, center) + CAR_Y_LEVEL * CAR_Y_LEVEL < (INTERSECTION_RADIUS * CU) * (INTERSECTION_RADIUS * CU)

Approaches(i, k) ==
    /\ Dist2(lastCars[i].look, intersectionCenters[k]) + CAR_Y_LEVEL * CAR_Y_LEVEL
          < (YIELD_DISTANCE * CU) * (YIELD_DISTANCE * CU)
    /\ Dist2(lastCars[i].pos, intersectionCenters[k]) + CAR_Y_LEVEL * CAR_Y_LEVEL
          > (INTERSECTION_RADIUS * CU) * (INTERSECTION_RADIUS * CU)

Perpendicular(i, j) == 2 * Abs(Dot(lastCars[i].fwd, lastCars[j].fwd)) < 1

\* C8 as claimed: when two vehicles with roughly perpendicular headings are
\* both inside the radius of the same intersection center in the same
\* tick, the target speed of at least one of them is forced to 0.
C8_BothInsideOneYields ==
    \A i, j \in DOMAIN cars : \A k \in DOMAIN intersectionCenters :
        (/\ ticks > 0 /\ i # j
         /\ InsideRadius(lastCars[i].pos, intersectionCenters[k])
         /\ InsideRadius(lastCars[j].pos, intersectionCenters[k])
         /\ Perpendicular(i, j))
        => (lastCars[i].target = 0 \/ lastCars[j].target = 0)

\* C8, amended: when a vehicle's lookahead point is within the yield
\* distance of an intersection center while the vehicle itself is outside
\* that center's radius, this is the first such center in registration
\* order, and another vehicle with a roughly perpendicular heading is inside
\* that radius in the same tick, the approaching vehicle's target speed is
\* forced to 0.
C8_ApproachingYieldsToInside ==
    \A i, j \in DOMAIN cars : \A k \in DOMAIN intersectionCenters :
        (/\ ticks > 0 /\ i # j
         /\ Approaches(i, k)
         /\ \A m \in 1 .. (k - 1) : ~Approaches(i, m)
         /\ InsideRadius(lastCars[j].pos, intersectionCenters[k])
         /\ Perpendicular(i, j))
        => lastCars[i].target = 0

C8_Witness ==
    \E i, j \in DOMAIN cars : \E k \in DOMAIN intersectionCenters :
        /\ ticks > 0 /\ i # j
        /\ Approaches(i, k)
        /\ \A m \in 1 .. (k - 1) : ~Approaches(i, m)
        /\ InsideRadius(lastCars[j].pos, intersectionCenters[k])
        /\ Perpendicular(i, j)
        /\ lastCars[i].target = 0


----------------------------------------------------------------------------
(* Two autonomous cars around the centers (-24, -24) and (-24, 0): car 0 on
   the inner loop of the first block, car 3 on the outer loop of the block
   next to it *)

\* startProgress = Math.random() of car 0: heading +z past (-24, -24)
\* towards (-24, 0), and on the far side of its loop
JamProgress0 == {932500, 500000}
\* startProgress of car 3: heading +x inside the radius of (-24, 0), about
\* to turn towards (-24, -24), and on the far side of its loop
JamProgress3 == {420000, 700000}

\* desiredSpeed = 8 + Math.random() * 7, in hundredths: 12.84 for
\* car 0, 11.64 for car 3
JamSpeeds0 == {12 * SU + 84}
JamSpeed3 == 11 * SU + 64

JamInit ==
    /\ SessionIdle
    /\ GridStart
    /\ BuildIdle
    /\ KnockIdle
    /\ ppos = FarPlayer
    /\ pvel = <<0, 0, 0>>
    /\ isGrounded = TRUE
    /\ frames = 0
    /\ lastTick = NoTick
    /\ maxDeltaSeen = 0
    /\ \E p0 \in JamProgress0, p3 \in JamProgress3, d0 \in JamSpeeds0 :
         cars = <<NewCar(1, p0, d0, FALSE), NewCar(3, p3, JamSpeed3, FALSE)>>
    /\ pedestrians = <<NewPedestrian(SidewalkA, 500000, 3 * SU)>>
    /\ train = [progress |-> 0]
    /\ ticks = 0
    /\ lastCars = [i \in DOMAIN cars |->
          [pos |-> cars[i].pos, fwd |-> cars[i].fwd, look |-> cars[i].pos,
           progress |-> cars[i].progress, target |-> cars[i].desiredSpeed]]
    /\ lastPeds = <<NoBounce>>

\* successive animation frames are a positive time apart
JamDeltas == {MaxDelta}

\* the animation loop asks for the next frame in every frame; ticks counts
\* the frames modulo 2 here, so that a frame that moves no car is a step too
nextFrame == ticks' = 1 - ticks

\* updateCars, frame after frame
updateCarsFrame ==
    /\ nextFrame
    /\ \E delta \in JamDeltas : updateCars(delta)
    /\ UNCHANGED <<pedestrians, train, lastPeds>>

JamNext == updateCarsFrame /\ UNCHANGED <<gridVars, playerVars, buildVars, knockVars, sessionVars>>

\* car i is below 0.5 and the last frame lowered its target speed, for a
\* lead car or for a car inside an intersection
StoppedForOthers(i) ==
    cars[i].speed < SU \div 2 /\ lastCars[i].target < cars[i].desiredSpeed

----------------------------------------------------------------------------
(* The falling scenario: the player is dropped from height 10 over a floor
   of voxels at y = -1 and receives no input *)

\* how many units below the floor the fall is followed
FallDepth == 3

FallInit ==
    /\ SessionIdle
    /\ voxels = VoxelsOf(FloorCells)
    /\ voxelMap = MapOf(voxels)
    /\ GridIdle
    /\ TrafficIdle
    /\ BuildIdle
    /\ KnockIdle
    /\ ppos = <<0, 10 * PU, 0>>
    /\ pvel = <<0, 0, 0>>
    /\ isGrounded = FALSE
    /\ frames = 0
    /\ lastTick = NoTick
    /\ maxDeltaSeen = 0

\* the frame deltas of the falling scenario, in hundredths of a second:
\* three of at most 0.05 s, and two above it up to the clamp
FallDeltas == {d \in 1 .. MaxDelta : d \in {2, 3, 5, 6, 10}}

\* updatePlayer with no movement input
updatePlayerFalling ==
    /\ ppos[2] >= (GROUND_LEVEL - FallDepth) * PU
    /\ \E delta \in FallDeltas :
         /\ updatePlayerStep(delta, <<0, 0>>)
         /\ maxDeltaSeen' = IF delta > maxDeltaSeen THEN delta ELSE maxDeltaSeen
    /\ frames' = IF frames < MaxFrames THEN frames + 1 ELSE frames
    /\ UNCHANGED <<gridVars, trafficVars, buildVars, knockVars, sessionVars>>

FallNext == updatePlayerFalling

\* floorTop + height / 2: the floor voxel's top is GROUND_LEVEL + 0.5
SettledY == GROUND_LEVEL * PU + PU \div 2 + halfHeight

Settled == isGrounded /\ pvel[2] = 0 /\ ppos[2] = SettledY

\* half the clamp: 0.05 s
SafeDelta == MaxDelta \div 2

\* C9 as claimed, for every sequence of deltas up to 0.1 s.  With no input
\* and nothing but the floor in the world the player only ever moves down,
\* so it can settle on the floor only if it never gets below the floor
\* voxels: the claim requires the feet to stay at or above their bottom.
C9_NeverBelowFloor == ppos[2] - halfHeight >= GROUND_LEVEL * PU

\* C9, amended: for every sequence of positive frame deltas of at most
\* 0.05 s the player eventually is grounded with velocity.y = 0 and
\* y = floorTop + height/2, and once it is, it is so after every later tick
\* (whatever the deltas).
C9_SettlesForSmallDeltas ==
    /\ [][Settled => Settled']_vars
    /\ <>(maxDeltaSeen > SafeDelta \/ Settled)

C9_Witness == Settled /\ maxDeltaSeen > 0 /\ maxDeltaSeen <= SafeDelta


----------------------------------------------------------------------------
(* Generative building: startGenerativeBuild, detectGreenAreaBounds and the
   construction workers.  Two lots, each with a for-sale sign over a strip of
   ground voxels; worker positions are in tenths of a unit. *)

maxPlotWidth == 100
maxPlotDepth == 100
\* BUILD_DELAY = 0.1 s in hundredths, SPEED = 4
BUILD_DELAY == 10
WORKER_SPEED == 4

\* startGenerativeBuild calls and worker frames per behaviour
MaxBuilds == 2
MaxBuildFrames == 2

\* '#567d46', '#679457' and the theme's grass colour
grassColors == {"#567d46", "#679457"}

\* the lots' sign positions (plotCenter), on the ground level y = -1
LotCenters == << <<0, -1, 0>>, <<0, -1, -5>> >>

\* the ground of a lot: a strip of w cells from the sign along +x / +z (lot
\* 1) or -x / -z (lot 2), w = 0 standing for a single road voxel under the
\* sign; and the sign's post just above the ground
LotVoxels(k, w, alongX, firstId) ==
    LET c == LotCenters[k]
        dir == IF k = 1 THEN 1 ELSE -1
        ground == [i \in 1 .. Max(w, 1) |->
            [id |-> firstId + i,
             position |-> IF alongX THEN <<(c[1] + dir * (i - 1)) * Q, c[2] * Q, c[3] * Q>>
                          ELSE <<c[1] * Q, c[2] * Q, (c[3] + dir * (i - 1)) * Q>>,
             size |-> Q,
             color |-> IF w = 0 THEN "#333333" ELSE "#567d46"]]
    IN  ground \o << [id |-> firstId, position |-> <<c[1] * Q, (c[2] + 1) * Q, c[3] * Q>>,
                      size |-> Q, color |-> "#ffffff"] >>

\* isGreenVoxel(x, z): the voxel under the key "x,-1,z" has a grass colour
isGreenVoxel(x, z) ==
    /\ <<x * Q, GROUND_LEVEL * Q, z * Q>> \in DOMAIN voxelMap
    /\ voxelMap[<<x * Q, GROUND_LEVEL * Q, z * Q>>].color \in grassColors

\* minX / maxX / minZ / maxZ of the cells taken out of the queue
BoxOf(cells) ==
    LET xs == {c[1] : c \in cells}
        zs == {c[2] : c \in cells}
    IN  [minX |-> CHOOSE x \in xs : \A y \in xs : x <= y,
         maxX |-> CHOOSE x \in xs : \A y \in xs : x >= y,
         minZ |-> CHOOSE z \in zs : \A y \in zs : z <= y,
         maxZ |-> CHOOSE z \in zs : \A y \in zs : z >= y]

TooLarge(box) ==
    \/ box.maxX - box.minX + 1 > maxPlotWidth
    \/ box.maxZ - box.minZ + 1 > maxPlotDepth

\* the cells the queue holds one round after `frontier`: the green
\* neighbours not visited yet
Neighbors(visited, frontier) ==
    {n \in UNION {{<<c[1] + 1, c[2]>>, <<c[1] - 1, c[2]>>,
                   <<c[1], c[2] + 1>>, <<c[1], c[2] - 1>>} : c \in frontier} :
        n \notin visited /\ isGreenVoxel(n[1], n[2])}

RECURSIVE FloodFill(_, _)
\* the breadth-first flood over green neighbours, eight rounds at a time; it
\* stops when the queue is empty or the box of the cells taken out of the
\* queue is too large.  The result is the set of those cells.
FloodFill(visited, frontier) ==
    LET f1 == Neighbors(visited, frontier)               v1 == visited \cup f1
        f2 == Neighbors(v1, f1)                          v2 == v1 \cup f2
        f3 == Neighbors(v2, f2)                          v3 == v2 \cup f3
        f4 == Neighbors(v3, f3)                          v4 == v3 \cup f4
        f5 == Neighbors(v4, f4)                          v5 == v4 \cup f5
        f6 == Neighbors(v5, f5)                          v6 == v5 \cup f6
        f7 == Neighbors(v6, f6)                          v7 == v6 \cup f7
        f8 == Neighbors(v7, f7)                          v8 == v7 \cup f8
    IN  IF f8 = {} \/ TooLarge(BoxOf(v8)) THEN v8 ELSE FloodFill(v8, f8)

\* the box the flood from a start cell ends with
PlotBox(startX, startZ) == BoxOf(FloodFill({<<startX, startZ>>}, {<<startX, startZ>>}))

\* detectGreenAreaBounds(centerX, centerZ): [minX, maxX, minZ, maxZ, valid]
detectGreenAreaBoundsFlood(startX, startZ) ==
    IF ~isGreenVoxel(startX, startZ)
    THEN [minX |-> startX - 6, maxX |-> startX + 6, minZ |-> startZ - 6, maxZ |-> startZ + 6,
          valid |-> FALSE]
    ELSE LET box == PlotBox(startX, startZ)
         IN  IF TooLarge(box)
             THEN [minX |-> startX - 6, maxX |-> startX + 6, minZ |-> startZ - 6,
                   maxZ |-> startZ + 6, valid |-> FALSE]
             ELSE box @@ [valid |-> TRUE]

\* a variant that takes the 13 x 13 fallback for a plot
detectGreenAreaBoundsFallback(startX, startZ) ==
    [minX |-> startX - 6, maxX |-> startX + 6, minZ |-> startZ - 6, maxZ |-> startZ + 6,
     valid |-> TRUE]

detectGreenAreaBounds(startX, startZ) == detectGreenAreaBoundsFlood(startX, startZ)

\* the nearest worker whatever it is doing: the search without its
\* !isBuilding && !isPreparing test
closestWorkerAny(plotCenter) ==
    LET d(w) == Dist2(constructionWorkers[w].pos, <<plotCenter[1] * CU, plotCenter[3] * CU>>)
        best == {w \in DOMAIN constructionWorkers :
                    \A v \in DOMAIN constructionWorkers : d(w) <= d(v)}
    IN  CHOOSE w \in best : \A v \in best : w <= v

\* the idle worker nearest to the plot centre, the first of equals; 0 if none
closestWorker(plotCenter) ==
    LET idle == {w \in DOMAIN constructionWorkers :
                    /\ ~constructionWorkers[w].isBuilding
                    /\ ~constructionWorkers[w].isPreparing}
        d(w) == Dist2(constructionWorkers[w].pos, <<plotCenter[1] * CU, plotCenter[3] * CU>>)
        best == {w \in idle : \A v \in idle : d(w) <= d(v)}
    IN  IF idle = {} THEN 0 ELSE CHOOSE w \in best : \A v \in best : w <= v

\* signVoxelsToRemove: the sign's post and boards over the plot centre
signVoxelsToRemove(plotCenter) ==
    {<<(plotCenter[1] + x) * Q, (plotCenter[2] + y) * Q, plotCenter[3] * Q>> :
        x \in -2 .. 2, y \in 1 .. 6}
    \cup {<<plotCenter[1] * Q, (plotCenter[2] + y) * Q, (plotCenter[3] + x) * Q>> :
        x \in -2 .. 2, y \in 1 .. 6}

\* onCashChange(-500) of startGenerativeBuild
BUILD_FEE == 500

\* handleCashChange: setCash(prev => prev + amount)
handleCashChange(amount) == cash + amount

\* startGenerativeBuild(prompt, signPosition) up to its await; handleStartBuilding
\* passes the position of a for-sale sign the player stands near
startGenerativeBuild ==
    /\ lastBuild.calls < MaxBuilds
    /\ \E k \in DOMAIN LotCenters :
         \E plotCenter \in {LotCenters[k]} \cap forSaleSigns :
         \E w \in {closestWorker(plotCenter)} :
         \E bounds \in {detectGreenAreaBounds(plotCenter[1], plotCenter[3])} :
             /\ lastBuild' = [lastBuild EXCEPT !.calls = @ + 1, !.sign = plotCenter, !.worker = w]
             /\ cash' = handleCashChange(-BUILD_FEE)
             /\ IF w = 0
                THEN UNCHANGED <<constructionWorkers, forSaleSigns, inFlight, updates>>
                ELSE IF ~bounds.valid
                THEN /\ constructionWorkers' =
                          [constructionWorkers EXCEPT ![w].isPreparing = FALSE,
                              ![w].target = <<plotCenter[1] * CU, plotCenter[3] * CU>>]
                     /\ UNCHANGED <<forSaleSigns, inFlight, updates>>
                ELSE /\ constructionWorkers' =
                          [constructionWorkers EXCEPT ![w].isPreparing = TRUE,
                              ![w].target = <<plotCenter[1] * CU, plotCenter[3] * CU>>]
                     /\ updates' = Append(updates,
                            [kind |-> "removeAt", position |-> signVoxelsToRemove(plotCenter),
                             size |-> 0, id |-> 0])
                     /\ forSaleSigns' = forSaleSigns \ {plotCenter}
                     /\ inFlight' = inFlight \cup
                            {[worker |-> w, bounds |-> bounds, plotCenter |-> plotCenter]}
    /\ UNCHANGED <<voxels, voxelMap, now, opLog, dragVoxels, nOps, lastReach>>

\* what generateContent can answer: no array, an empty array, or voxels in
\* plot coordinates, one of them outside every plot
Responses ==
    { [array |-> FALSE, voxels |-> <<>>],
      [array |-> TRUE, voxels |-> <<>>],
      [array |-> TRUE, voxels |-> << <<1, 0, 0>>, <<0, 0, 0>> >>],
      [array |-> TRUE, voxels |-> << <<0, 1, 0>>, <<maxPlotWidth + 20, 0, 0>> >>] }

RECURSIVE worldVoxels(_, _)
\* map to world coordinates and keep what lies within the bounds
worldVoxels(generated, call) ==
    IF generated = <<>> THEN <<>>
    ELSE LET v == Head(generated)
             pos == <<v[1] + call.bounds.minX, v[2] + call.plotCenter[2] + 1,
                      v[3] + call.bounds.minZ>>
             rest == worldVoxels(Tail(generated), call)
         IN  IF /\ pos[1] >= call.bounds.minX /\ pos[1] <= call.bounds.maxX
                /\ pos[3] >= call.bounds.minZ /\ pos[3] <= call.bounds.maxZ
             THEN <<pos>> \o rest ELSE rest

\* .sort by y, then x, then z, for the answers above (at most two voxels)
SortVoxels(vs) ==
    IF Len(vs) = 2 /\ ( \/ vs[2][2] < vs[1][2]
                         \/ (vs[2][2] = vs[1][2] /\ vs[2][1] < vs[1][1])
                         \/ (vs[2][2] = vs[1][2] /\ vs[2][1] = vs[1][1] /\ vs[2][3] < vs[1][3]) )
    THEN <<vs[2], vs[1]>> ELSE vs

\* the worker stays as it is: the else branch and the catch block without
\* their assignment
keepPreparing(worker) == worker

\* closestWorker.isPreparing = false, of the else branch and of the catch block
stopPreparing(worker) == [worker EXCEPT !.isPreparing = FALSE]

\* the continuation of startGenerativeBuild once generateContent settles
generateContentSettles ==
    /\ \E call \in inFlight, threw \in BOOLEAN, response \in Responses :
         LET queue == SortVoxels(worldVoxels(response.voxels, call))
             w == call.worker
         IN  /\ inFlight' = inFlight \ {call}
             /\ constructionWorkers' =
                  IF threw \/ ~response.array
                  THEN [constructionWorkers EXCEPT ![w] = stopPreparing(@)]
                  ELSE [constructionWorkers EXCEPT
                          ![w].isPreparing = FALSE,
                          ![w].isBuilding = (queue # <<>>),
                          ![w].buildQueue = queue,
                          ![w].target = IF queue # <<>>
                                        THEN <<queue[1][1] * CU, queue[1][3] * CU>> ELSE @]
             /\ lastBuild' =
                  IF threw \/ ~response.array THEN lastBuild
                  ELSE [lastBuild EXCEPT !.queued[w] = queue, !.placed[w] = <<>>]
    /\ UNCHANGED <<gridVars, forSaleSigns, cash>>

\* updateConstructionWorkers for one worker: [worker, placed]
stepWorker(worker, delta) ==
    IF worker.isPreparing
    THEN LET dist == Dist(worker.pos, worker.target)
         IN  [worker |->
                 IF dist > CU \div 2
                 THEN [worker EXCEPT !.pos =
                         <<worker.pos[1] + ((worker.target[1] - worker.pos[1]) * WORKER_SPEED * CU * delta) \div (TU * dist),
                           worker.pos[2] + ((worker.target[2] - worker.pos[2]) * WORKER_SPEED * CU * delta) \div (TU * dist)>>]
                 ELSE worker,
              placed |-> <<>>]
    ELSE IF worker.isBuilding
    THEN IF worker.buildQueue # <<>>
         THEN LET aimed == [worker EXCEPT !.target = <<worker.buildQueue[1][1] * CU, worker.buildQueue[1][3] * CU>>]
              IN  IF worker.buildCooldown - delta <= 0
                  THEN [worker |-> [aimed EXCEPT !.buildQueue = Tail(@), !.buildCooldown = BUILD_DELAY],
                        placed |-> <<worker.buildQueue[1]>>]
                  ELSE [worker |-> [aimed EXCEPT !.buildCooldown = @ - delta], placed |-> <<>>]
         ELSE [worker |-> [worker EXCEPT !.isBuilding = FALSE, !.target = worker.pos], placed |-> <<>>]
    ELSE [worker |-> worker, placed |-> <<>>]

RECURSIVE PlacedBy(_, _, _)
\* the onAddVoxel calls of the workers from w on, in order
PlacedBy(w, delta, ups) ==
    IF w > Len(constructionWorkers) THEN ups
    ELSE LET placed == stepWorker(constructionWorkers[w], delta).placed
         IN  PlacedBy(w + 1, delta,
                IF placed = <<>> THEN ups
                ELSE Append(ups, AddUpdate(<<placed[1][1] * Q, placed[1][2] * Q, placed[1][3] * Q>>, Q)))

\* updateConstructionWorkers(delta); counted tells whether the frame is one
\* of the MaxBuildFrames frames of the bounded scenario
updateWorkers(delta, counted) ==
    /\ constructionWorkers' =
         [w \in DOMAIN constructionWorkers |-> stepWorker(constructionWorkers[w], delta).worker]
    /\ updates' = PlacedBy(1, delta, updates)
    /\ lastBuild' =
         [lastBuild EXCEPT
            !.frames = IF counted THEN @ + 1 ELSE @,
            !.placed = [w \in DOMAIN constructionWorkers |->
                          lastBuild.placed[w] \o stepWorker(constructionWorkers[w], delta).placed]]
    /\ UNCHANGED <<voxels, voxelMap, now, opLog, dragVoxels, nOps, lastReach, forSaleSigns, inFlight, cash>>

updateConstructionWorkers ==
    /\ lastBuild.frames < MaxBuildFrames
    /\ updateWorkers(MaxDelta, TRUE)

\* the strips the lots can lie on: a road voxel, a small plot, the largest
\* plot that is still accepted and the smallest that is not
PlotWidths == {0, 2, maxPlotWidth, maxPlotWidth + 1}

\* a worker as created: by its lot, idle
NewWorker(k) ==
    [pos |-> <<(LotCenters[k][1] + 3) * CU, (LotCenters[k][3] + 3) * CU>>,
     target |-> <<LotCenters[k][1] * CU, LotCenters[k][3] * CU>>,
     isPreparing |-> FALSE, isBuilding |-> FALSE, buildQueue |-> <<>>, buildCooldown |-> 0]

BuildInit ==
    /\ SessionIdle
    /\ \E w1 \in PlotWidths, alongX \in BOOLEAN :
         voxels = LotVoxels(1, w1, alongX, 0) \o LotVoxels(2, 2, ~alongX, maxPlotWidth + 10)
    /\ voxelMap = MapOf(voxels)
    /\ GridIdle
    /\ PlayerIdle
    /\ TrafficIdle
    /\ KnockIdle
    /\ constructionWorkers = <<NewWorker(1), NewWorker(2)>>
    /\ forSaleSigns = {LotCenters[1], LotCenters[2]}
    /\ inFlight = {}
    /\ lastBuild = [calls |-> 0, frames |-> 0, sign |-> <<0, 0, 0>>, worker |-> 0,
                    queued |-> << <<>>, <<>> >>, placed |-> << <<>>, <<>> >>]
    /\ cash = 0

BuildNext ==
    \/ startGenerativeBuild /\ UNCHANGED <<playerVars, trafficVars, knockVars, sessionVars>>
    \/ generateContentSettles /\ UNCHANGED <<playerVars, trafficVars, knockVars, sessionVars>>
    \/ updateConstructionWorkers /\ UNCHANGED <<playerVars, trafficVars, knockVars, sessionVars>>
    \/ Render /\ UNCHANGED <<playerVars, trafficVars, buildVars, knockVars, sessionVars>>

\* the plot under a sign is not one a build can start on: its origin is not
\* a grass voxel, or the grass connected to it spans more than 100 cells
PlotRejected(plotCenter) ==
    \/ ~isGreenVoxel(plotCenter[1], plotCenter[3])
    \/ TooLarge(PlotBox(plotCenter[1], plotCenter[3]))

\* C14: a generative build requested at a sign whose ground origin is not a
\* grass voxel, or whose flood-filled plot exceeds 100 in width or depth,
\* adds and removes no voxel, leaves the for-sale signs as they are, and
\* leaves the worker selected for it neither preparing nor building.
C14_RejectedBuildChangesNothing ==
    [][ ( /\ lastBuild'.calls = lastBuild.calls + 1
          /\ lastBuild'.worker # 0
          /\ PlotRejected(lastBuild'.sign) )
        => /\ voxels' = voxels
           /\ updates' = updates
           /\ voxelMap' = voxelMap
           /\ forSaleSigns' = forSaleSigns
           /\ inFlight' = inFlight
           /\ ~constructionWorkers'[lastBuild'.worker].isPreparing
           /\ ~constructionWorkers'[lastBuild'.worker].isBuilding ]_vars

\* a build was refused on a strip of 101 grass cells after one was started
\* on the other lot
C14_Witness ==
    /\ lastBuild.calls = 2
    /\ lastBuild.worker # 0
    /\ isGreenVoxel(lastBuild.sign[1], lastBuild.sign[3])
    /\ PlotRejected(lastBuild.sign)
    /\ Cardinality(forSaleSigns) = 1
    /\ ~constructionWorkers[lastBuild.worker].isPreparing
    /\ ~constructionWorkers[lastBuild.worker].isBuilding

\* the last startGenerativeBuild call stopped before construction: no idle
\* worker was found, or the plot's detection failed
BuildAborted(call) == call.worker = 0 \/ PlotRejected(call.sign)

\* C29: a build request that stops before construction, because no worker
\* is idle or because the plot's detection fails, leaves the cash as it was.
C29_AbortedBuildIsFree ==
    [][ (lastBuild'.calls = lastBuild.calls + 1 /\ BuildAborted(lastBuild'))
        => cash' = cash ]_vars

\* the worker has a generative build in hand
Busy(worker) == worker.isPreparing \/ worker.isBuilding

\* C30: a worker handles at most one generative build at a time: the worker
\* a request selects is neither preparing nor building when it is selected,
\* no worker is preparing and building at once, no two requests awaiting
\* their answer share a worker, and the worker of a request awaiting its
\* answer is not building another one.
C30_OneBuildPerWorker ==
    [][ /\ (lastBuild'.calls = lastBuild.calls + 1 /\ lastBuild'.worker # 0)
            => ~Busy(constructionWorkers[lastBuild'.worker])
        /\ \A w \in DOMAIN constructionWorkers :
              ~(constructionWorkers'[w].isPreparing /\ constructionWorkers'[w].isBuilding)
        /\ \A c1, c2 \in inFlight' : c1.worker = c2.worker => c1 = c2
        /\ \A c \in inFlight' :
              /\ constructionWorkers'[c.worker].isPreparing
              /\ ~constructionWorkers'[c.worker].isBuilding ]_vars

\* a second request went to the farther worker while the nearer one was
\* building the first
C30_Witness ==
    /\ lastBuild.calls = 2
    /\ lastBuild.worker # 0
    /\ \E w \in DOMAIN constructionWorkers :
         /\ w # lastBuild.worker
         /\ constructionWorkers[w].isBuilding
         /\ Dist2(constructionWorkers[w].pos, <<lastBuild.sign[1] * CU, lastBuild.sign[3] * CU>>)
              < Dist2(constructionWorkers[lastBuild.worker].pos,
                      <<lastBuild.sign[1] * CU, lastBuild.sign[3] * CU>>)
    /\ constructionWorkers[lastBuild.worker].isPreparing

\* the animation loop keeps calling updateConstructionWorkers: a frame of
\* the loop, as many as it takes
updateConstructionWorkersFrame ==
    /\ nextFrame
    /\ updateWorkers(MaxDelta, FALSE)
    /\ UNCHANGED <<cars, pedestrians, train, lastCars, lastPeds>>

\* the promise of a generateContent call is resolved or rejected
promiseSettles == \E call \in inFlight : inFlight' = inFlight \ {call}

\* two lots of two grass cells each, both with their sign, and two idle
\* workers
BuildLiveInit ==
    /\ SessionIdle
    /\ voxels = LotVoxels(1, 2, TRUE, 0) \o LotVoxels(2, 2, FALSE, maxPlotWidth + 10)
    /\ voxelMap = MapOf(voxels)
    /\ GridIdle
    /\ PlayerIdle
    /\ TrafficIdle
    /\ KnockIdle
    /\ constructionWorkers = <<NewWorker(1), NewWorker(2)>>
    /\ forSaleSigns = {LotCenters[1], LotCenters[2]}
    /\ inFlight = {}
    /\ lastBuild = [calls |-> 0, frames |-> 0, sign |-> <<0, 0, 0>>, worker |-> 0,
                    queued |-> << <<>>, <<>> >>, placed |-> << <<>>, <<>> >>]
    /\ cash = 0

\* the requests, their answers and the frames; the queued updaters stay
\* queued, the workers read neither the voxels nor the queue
BuildLiveNext ==
    \/ startGenerativeBuild /\ UNCHANGED <<playerVars, trafficVars, knockVars, sessionVars>>
    \/ generateContentSettles /\ UNCHANGED <<playerVars, trafficVars, knockVars, sessionVars>>
    \/ updateConstructionWorkersFrame /\ UNCHANGED <<playerVars, knockVars, sessionVars>>

\* the worker is idle: not preparing, not building, nothing queued
Idle(worker) == ~worker.isPreparing /\ ~worker.isBuilding /\ worker.buildQueue = <<>>

\* what the worker placed so far is the beginning of the queue it was given
PlacedInOrder(w) ==
    /\ Len(lastBuild.placed[w]) <= Len(lastBuild.queued[w])
    /\ lastBuild.placed[w] = SubSeq(lastBuild.queued[w], 1, Len(lastBuild.placed[w]))

\* C28: a worker put into preparing by a build request is idle again some
\* time later, whether generateContent answers an array, answers something
\* else or fails; what a worker places is always the beginning of its
\* queue, voxel by voxel, and an idle worker has placed all of it.
C28_PreparingWorkerReturnsToIdle ==
    \A w \in 1 .. 2 :
        /\ [](PlacedInOrder(w))
        /\ [](Idle(constructionWorkers[w]) => lastBuild.placed[w] = lastBuild.queued[w])
        /\ (constructionWorkers[w].isPreparing ~> Idle(constructionWorkers[w]))

\* a worker is idle again after placing the two voxels of its queue
C28_Witness ==
    \E w \in 1 .. 2 :
        /\ Idle(constructionWorkers[w])
        /\ Len(lastBuild.queued[w]) = 2
        /\ lastBuild.placed[w] = lastBuild.queued[w]
        /\ lastBuild.queued[w][1] # lastBuild.queued[w][2]

----------------------------------------------------------------------------
(* Spring displacement: the offset of a pushed agent *)

\* SPRING_K = 1.5 (in tenths) and DAMPING = 0.95 (in hundredths) of updatePedestrians
SPRING_K_PED == 15
DAMPING_PED == 95
\* SPRING_K = 5.0 and DAMPING = 0.9 of updateCars
SPRING_K_CAR == 50
DAMPING_CAR == 90
\* pushDir.multiplyScalar(60) of a drivable car, multiplyScalar(10) of a path car
DRIVABLE_PUSH == 60
NPC_PUSH == 10

\* offsets per unit, and offset velocities per unit a second, of the 60 Hz spring
OU == 1000 * 100

\* frames a second, and the ticks a spring is followed for
HZ == 6 * 10
MaxSpringTicks == 900

\* displacementVelocity.add(offset * -SPRING_K * delta); .multiplyScalar(DAMPING);
\* offset.add(displacementVelocity * delta), for one component and
\* delta = dnum / dden seconds
springStepDamped(offset, dv, K10, D100, dnum, dden) ==
    LET dv1 == dv - (K10 * offset * dnum) \div (10 * dden)
        dv2 == (dv1 * D100) \div 100
    IN  [offset |-> offset + (dv2 * dnum) \div dden, dv |-> dv2]

\* a variant without the damping line
springStepUndamped(offset, dv, K10, D100, dnum, dden) ==
    LET dv1 == dv - (K10 * offset * dnum) \div (10 * dden)
    IN  [offset |-> offset + (dv1 * dnum) \div dden, dv |-> dv1]

springStep(offset, dv, K10, D100, dnum, dden) ==
    springStepDamped(offset, dv, K10, D100, dnum, dden)

\* a car pushes a pedestrian at rest on its path: displacementVelocity.add(pushDir * strength)
push ==
    /\ spring.impulse = 0
    /\ \E strength \in {NPC_PUSH, DRIVABLE_PUSH} :
         spring' = [spring EXCEPT !.dv = strength * OU, !.impulse = strength]
    /\ UNCHANGED <<pair, drivableCars, displacement, lastKnock>>

\* one updatePedestrians call at delta = 1/60 for the pushed pedestrian
tick60 ==
    /\ spring.impulse # 0
    /\ spring.n < MaxSpringTicks
    /\ \E next \in {springStep(spring.offset, spring.dv, SPRING_K_PED, DAMPING_PED, 1, HZ)} :
         spring' = [spring EXCEPT !.offset = next.offset, !.dv = next.dv,
                                  !.n = @ + 1, !.prev = spring.offset,
                                  !.fell = @ \/ Abs(next.offset) < Abs(spring.offset),
                                  !.hadFallen = spring.fell]
    /\ UNCHANGED <<pair, drivableCars, displacement, lastKnock>>

SpringInit ==
    /\ SessionIdle
    /\ GridStart
    /\ PlayerIdle
    /\ TrafficIdle
    /\ BuildIdle
    /\ KnockIdle

SpringNext ==
    \/ push /\ UNCHANGED <<gridVars, playerVars, trafficVars, buildVars, sessionVars>>
    \/ tick60 /\ UNCHANGED <<gridVars, playerVars, trafficVars, buildVars, sessionVars>>

\* 0.01 units
SpringRest == OU \div 100

\* ticks after which the offset is below 0.01: 13.6 s after a push of 60,
\* 10.6 s after a push of 10
SettleTicks == 14 * HZ

----------------------------------------------------------------------------
(* updateCarCollisions: the vehicle-to-vehicle arbiter *)

\* COLLISION_RADIUS = 2.5, in tenths
COLLISION_RADIUS == 25
\* restitution = 0.8, in tenths
RESTITUTION == 8
\* a unit normal's components are held in thousandths
NU == 10 * 100

\* subVectors(carA.pos, carB.pos).normalize(), (1, 0, 0) on exact overlap
normalOf(posA, posB) ==
    IF posA = posB THEN <<NU, 0>>
    ELSE <<((posA[1] - posB[1]) * NU) \div Dist(posA, posB),
           ((posA[2] - posB[2]) * NU) \div Dist(posA, posB)>>

\* normal * (speed * -(1 + restitution) * 0.5), applied when speed < 0
impulseWhenApproaching(normal, speed) ==
    IF speed < 0
    THEN <<(normal[1] * speed * (-(10 + RESTITUTION))) \div (20 * NU),
           (normal[2] * speed * (-(10 + RESTITUTION))) \div (20 * NU)>>
    ELSE <<0, 0>>

\* a variant that applies the impulse whatever the sign of speed
impulseAlways(normal, speed) ==
    <<(normal[1] * speed * (-(10 + RESTITUTION))) \div (20 * NU),
      (normal[2] * speed * (-(10 + RESTITUTION))) \div (20 * NU)>>

impulse(normal, speed) == impulseWhenApproaching(normal, speed)

\* relativeVel.dot(normal)
normalSpeed(velA, velB, normal) ==
    Dot(<<velA[1] - velB[1], velA[2] - velB[2]>>, normal) \div NU

\* the body of the pair loop for carA at posA and carB at posB: whether they
\* overlap, the separation either is moved by, and the impulse
collidePair(posA, velA, posB, velB) ==
    LET normal == normalOf(posA, posB)
        overlap == 2 * COLLISION_RADIUS - Dist(posA, posB)
        speed == normalSpeed(velA, velB, normal)
    IN  IF Dist2(posA, posB) < (2 * COLLISION_RADIUS) * (2 * COLLISION_RADIUS)
        THEN [hit |-> TRUE, normal |-> normal, speed |-> speed,
              separation |-> <<(normal[1] * overlap) \div (2 * NU), (normal[2] * overlap) \div (2 * NU)>>,
              impulse |-> impulse(normal, speed)]
        ELSE [hit |-> FALSE, normal |-> normal, speed |-> speed,
              separation |-> <<0, 0>>, impulse |-> <<0, 0>>]

\* where carB can be relative to carA at the origin, in tenths: on top of it,
\* along an axis, along a 3-4-5 diagonal, and out of reach
PairOffsets == {<<0, 0>>, <<30, 0>>, <<0, -40>>, <<18, 24>>, <<-24, -32>>, <<30, 40>>, <<60, 0>>}
\* velocities in hundredths, multiples of 2.5
PairVelocities == {<<0, 0>>, <<250, 0>>, <<-500, 250>>, <<-250, 500>>, <<750, 0>>}

ArbiterInit ==
    /\ SessionIdle
    /\ GridStart
    /\ PlayerIdle
    /\ TrafficIdle
    /\ BuildIdle
    /\ spring = [offset |-> 0, dv |-> 0, n |-> 0, prev |-> 0, impulse |-> 0, fell |-> FALSE, hadFallen |-> FALSE]
    /\ drivableCars = <<>>
    /\ displacement = [cars |-> <<>>, peds |-> <<>>]
    /\ lastKnock = [frames |-> 0]
    /\ \E posB \in PairOffsets, velA \in PairVelocities, velB \in PairVelocities :
         pair = << [pos |-> <<0, 0>>, vel |-> velA, before |-> velA, hit |-> FALSE, speed |-> 0, normal |-> <<0, 0>>],
                   [pos |-> posB, vel |-> velB, before |-> velB, hit |-> FALSE, speed |-> 0, normal |-> <<0, 0>>] >>

\* updateCarCollisions on a list of two vehicles
collide ==
    /\ pair # <<>>
    /\ pair[1].normal = <<0, 0>>
    /\ \E c \in {collidePair(pair[1].pos, pair[1].vel, pair[2].pos, pair[2].vel)} :
         pair' = << [pos |-> <<pair[1].pos[1] + c.separation[1], pair[1].pos[2] + c.separation[2]>>,
                     vel |-> <<pair[1].vel[1] + c.impulse[1], pair[1].vel[2] + c.impulse[2]>>,
                     before |-> pair[1].vel, hit |-> c.hit, speed |-> c.speed, normal |-> c.normal],
                    [pos |-> <<pair[2].pos[1] - c.separation[1], pair[2].pos[2] - c.separation[2]>>,
                     vel |-> <<pair[2].vel[1] - c.impulse[1], pair[2].vel[2] - c.impulse[2]>>,
                     before |-> pair[2].vel, hit |-> c.hit, speed |-> c.speed, normal |-> c.normal] >>
    /\ UNCHANGED <<spring, drivableCars, displacement, lastKnock>>

ArbiterNext ==
    \/ collide /\ UNCHANGED <<gridVars, playerVars, trafficVars, buildVars, sessionVars>>

\* C19: for an overlapping pair the velocities change only if the relative
\* velocity along the centre-to-centre normal was negative; the two changes
\* are equal and opposite (the velocity sum is kept); and afterwards the
\* relative velocity along that normal is -0.8 times what it was, which is
\* not negative.
C19_ElasticImpulse ==
    (pair # <<>> /\ pair[1].hit)
        => LET after == normalSpeed(pair[1].vel, pair[2].vel, pair[1].normal)
           IN  /\ (pair[1].vel # pair[1].before \/ pair[2].vel # pair[2].before) => pair[1].speed < 0
               /\ pair[1].vel[1] + pair[2].vel[1] = pair[1].before[1] + pair[2].before[1]
               /\ pair[1].vel[2] + pair[2].vel[2] = pair[1].before[2] + pair[2].before[2]
               /\ pair[1].speed < 0 => 10 * after = -RESTITUTION * pair[1].speed
               /\ after >= 0

\* two vehicles that overlapped on a diagonal while closing in, after the impulse
C19_Witness ==
    /\ pair # <<>>
    /\ pair[1].hit
    /\ pair[1].speed < 0
    /\ pair[1].normal[1] # 0
    /\ pair[1].normal[2] # 0
    /\ pair[1].vel # pair[1].before
    /\ pair[2].vel # pair[2].before

----------------------------------------------------------------------------
(* A frame with a player-driven car: driving input, updateCars,
   updateDrivableCars, updatePedestrians, updateTrain, updateCarCollisions.
   Positions are in tenths, velocities and offsets in hundredths.  The driven
   car heads along +z (rotationY = 0) and the lateral input is 0. *)

CAR_SPEED == 15
\* halfW = 1.4 and halfL = 2.8, in tenths
halfW == 14
halfL == 28
\* PEDESTRIAN_Y_LEVEL = 1.3, in tenths
PEDESTRIAN_Y_LEVEL == 13

\* frames per behaviour
MaxKnockFrames == 3

\* isVoxelAt on coordinates in tenths
carVoxelAt(x, y, z) == <<(x \div CU) * Q, (y \div CU) * Q, (z \div CU) * Q>> \in DOMAIN voxelMap

\* the twelve footprint points of checkCarWorldCollision, relative to the centre
footprint ==
    {<<halfW, halfL>>, <<-halfW, halfL>>, <<halfW, -halfL>>, <<-halfW, -halfL>>,
     <<halfW, 0>>, <<-halfW, 0>>, <<0, halfL>>, <<0, -halfL>>,
     <<halfW, halfL \div 2>>, <<-halfW, halfL \div 2>>,
     <<halfW, -(halfL \div 2)>>, <<-halfW, -(halfL \div 2)>>}

\* checkCarWorldCollision(pos, quat) for a car at height y: each point at
\* y + 0.5 and y + 1.5
checkCarWorldCollision(pos, y) ==
    \E pt \in footprint :
        \/ carVoxelAt(pos[1] + pt[1], y + 5, pos[2] + pt[2])
        \/ carVoxelAt(pos[1] + pt[1], y + 15, pos[2] + pt[2])

\* Vector3.distanceTo for <<x, y, z>>
Dist3(a, b) ==
    ISqrt((a[1] - b[1]) * (a[1] - b[1]) + (a[2] - b[2]) * (a[2] - b[2]) + (a[3] - b[3]) * (a[3] - b[3]))

\* the mesh position of a pedestrian, <<x, y, z>>
pedMesh(ped, disp) == <<ped.pos[1], PEDESTRIAN_Y_LEVEL + disp.lift, ped.pos[2]>>

\* pushDir.multiplyScalar(strength) for a car at carPos and a pedestrian within
\* reach of it, <<0, 0, 0>> otherwise
pushOf(carPos, pedPos, reach, strength) ==
    LET dist == Dist3(carPos, pedPos)
    IN  IF (carPos[1] - pedPos[1]) * (carPos[1] - pedPos[1]) + (carPos[2] - pedPos[2]) * (carPos[2] - pedPos[2])
             + (carPos[3] - pedPos[3]) * (carPos[3] - pedPos[3]) < reach * reach /\ dist > 0
        THEN [k \in 1 .. 3 |-> ((pedPos[k] - carPos[k]) * strength * SU) \div dist]
        ELSE <<0, 0, 0>>

\* updatePlayer while player.isInCar: the forward / back input moveZ
driveCar(car, moveZ, delta) ==
    [car EXCEPT
        !.velocity = <<@[1], @[2] + ((IF moveZ > 0 THEN CAR_SPEED * SU * moveZ
                                       ELSE (CAR_SPEED * SU * moveZ) \div 2) * delta) \div TU>>,
        !.steering = @ - (@ * 5 * delta) \div TU]

\* updateDrivableCars for one car, up to the pedestrian loop
updateDrivableCar(car, delta) ==
    LET velocity == <<(car.velocity[1] * (TU - delta)) \div TU, (car.velocity[2] * (TU - delta)) \div TU>>
        nextPos == <<car.pos[1] + (velocity[1] * delta) \div 1000, car.pos[2] + (velocity[2] * delta) \div 1000>>
        blocked == checkCarWorldCollision(nextPos, car.y)
        pos == IF blocked THEN car.pos ELSE nextPos
        groundY == IF carVoxelAt(pos[1], car.y - CU, pos[2])
                   THEN ((car.y - CU) \div CU) * CU + CU \div 2 ELSE -CU
    IN  [car EXCEPT
            !.velocity = IF blocked THEN <<(velocity[1] * (-3)) \div 10, (velocity[2] * (-3)) \div 10>>
                         ELSE velocity,
            !.steering = (@ * 9) \div 10,
            !.pos = pos,
            !.y = @ + ((groundY + CU - @) * delta * 10) \div TU]

\* the spring integration of updateCars for a car's offset, <<x, z>>
carSpring(disp, delta) ==
    LET x == springStep(disp.offset[1], disp.dv[1], SPRING_K_CAR, DAMPING_CAR, delta, TU)
        z == springStep(disp.offset[2], disp.dv[2], SPRING_K_CAR, DAMPING_CAR, delta, TU)
    IN  [offset |-> <<x.offset, z.offset>>, dv |-> <<x.dv, z.dv>>]

\* lines 1759-1767 for a pedestrian's offset, <<x, y, z>>: lift is the height
\* the mesh gets, offset.y is then kept from going below 0
pedSpring(disp, delta) ==
    LET c == [k \in 1 .. 3 |-> springStep(disp.offset[k], disp.dv[k], SPRING_K_PED, DAMPING_PED, delta, TU)]
    IN  [offset |-> <<c[1].offset, Max(0, c[2].offset), c[3].offset>>,
         dv |-> <<c[1].dv, c[2].dv, c[3].dv>>,
         lift |-> c[2].offset \div 10]

\* lines 1725-1736 from a mesh position `lift` above the sidewalk level
CandidatesFromMesh(path, currentPos, lift) ==
    {c \in [path : sidewalkPaths \ {path}, startT : {0, 1}] :
        candidateDist2(currentPos, c) + lift * lift < (SEARCH_RADIUS * CU) * (SEARCH_RADIUS * CU)}

\* lines 1740-1750 from a mesh position `lift` above the sidewalk level
RerouteFromMesh(ped, currentPos, lift, choice) ==
    LET target == IF choice.startT = 0 THEN choice.path.from ELSE choice.path.to
    IN  IF candidateDist2(currentPos, choice) + lift * lift > (2 * CU) * (2 * CU)
        THEN [ped EXCEPT !.path = [from |-> currentPos, to |-> target, bridge |-> TRUE],
                         !.progress = 0,
                         !.speed = Abs(ped.speed)]
        ELSE [ped EXCEPT !.path = choice.path,
                         !.progress = choice.startT * PRG,
                         !.speed = IF choice.startT = 0 THEN Abs(ped.speed) ELSE -Abs(ped.speed)]

\* lines 1706-1753 for a pedestrian whose mesh is at currentPos, lift above
\* the sidewalk level
routeStep(ped, currentPos, lift, delta, pick) ==
    LET adv == AdvanceClamped(ped.progress, ped.speed, curveLength(ped.path), delta)
        moved == [ped EXCEPT !.progress = adv.progress]
        cands == CandidatesFromMesh(ped.path, currentPos, lift)
    IN  IF ~adv.reachedEnd THEN moved
        ELSE IF cands # {} THEN RerouteFromMesh(moved, currentPos, lift, pick)
        ELSE [moved EXCEPT !.speed = Bounce(ped.speed)]

\* what pickRandom can return for a pedestrian this frame
KnockPicks(ped, disp, delta) ==
    LET cands == CandidatesFromMesh(ped.path, ped.pos, disp.lift)
    IN  IF AdvanceClamped(ped.progress, ped.speed, curveLength(ped.path), delta).reachedEnd /\ cands # {}
        THEN cands ELSE {[path |-> ped.path, startT |-> 0]}

\* the path state of a pedestrian
pathState(ped) == [path |-> ped.path, progress |-> ped.progress, speed |-> ped.speed]

RECURSIVE collideAll(_, _, _)
\* the pair loop of updateCarCollisions from pair k of `pairs` on; all holds
\* per vehicle its type, pos (mesh.position), vel, and the offset of a path car
collideAll(all, pairs, k) ==
    IF k > Len(pairs) THEN all
    ELSE LET i == pairs[k][1]
             j == pairs[k][2]
             c == collidePair(all[i].pos, all[i].vel, all[j].pos, all[j].vel)
             plus(v, w) == <<v[1] + w[1], v[2] + w[2]>>
             minus(v, w) == <<v[1] - w[1], v[2] - w[2]>>
             a == IF all[i].type = "npc"
                  THEN [all[i] EXCEPT !.offset = <<@[1] + c.separation[1] * 10, @[2] + c.separation[2] * 10>>,
                                      !.vel = plus(@, c.impulse)]
                  ELSE [all[i] EXCEPT !.pos = plus(@, c.separation), !.vel = plus(@, c.impulse)]
             b == IF all[j].type = "npc"
                  THEN [all[j] EXCEPT !.offset = <<@[1] - c.separation[1] * 10, @[2] - c.separation[2] * 10>>,
                                      !.vel = minus(@, c.impulse)]
                  ELSE [all[j] EXCEPT !.pos = minus(@, c.separation), !.vel = minus(@, c.impulse)]
         IN  collideAll([all EXCEPT ![i] = a, ![j] = b], pairs, k + 1)

\* for (i...) for (j = i + 1...): the pairs of n vehicles in loop order
pairsOf(n) ==
    LET ps == {<<i, j>> \in (1 .. n) \X (1 .. n) : i < j}
        rank(pr) == Cardinality({q \in ps : q[1] < pr[1] \/ (q[1] = pr[1] /\ q[2] < pr[2])}) + 1
    IN  [k \in 1 .. Cardinality(ps) |-> CHOOSE pr \in ps : rank(pr) = k]

\* allCars after updateCarCollisions, given the frame's path cars, their
\* displacements and the drivable cars
updateCarCollisions(cs, ds, dr) ==
    collideAll([k \in 1 .. (Len(cs) + Len(dr)) |->
                   IF k <= Len(cs)
                   THEN [type |-> "npc", pos |-> cs[k].pos, vel |-> ds[k].dv, offset |-> ds[k].offset]
                   ELSE [type |-> "drivable", pos |-> dr[k - Len(cs)].pos, vel |-> dr[k - Len(cs)].velocity,
                         offset |-> <<0, 0>>]],
               pairsOf(Len(cs) + Len(dr)), 1)

\* one animate call while the player drives drivableCars[1]
animateKnock ==
    /\ lastKnock.frames < MaxKnockFrames
    /\ \E delta \in {MaxDelta \div 2, MaxDelta}, moveZ \in {-1, 0, 1} :
       \E picks \in [DOMAIN pedestrians -> UNION {KnockPicks(pedestrians[i], displacement.peds[i], delta) : i \in DOMAIN pedestrians}] :
       \* updatePlayer, then updateCars: path state, spring, mesh position
       \E driven \in {[k \in DOMAIN drivableCars |->
                         IF k = 1 THEN driveCar(drivableCars[k], moveZ, delta) ELSE drivableCars[k]]} :
       \E carSprung \in {[i \in DOMAIN cars |-> carSpring(displacement.cars[i], delta)]} :
       \E cs \in {[i \in DOMAIN cars |->
                     LET c == stepCar(cars[i], targetSpeed(i), delta)
                     IN  [c EXCEPT !.pos = <<c.pos[1] + carSprung[i].offset[1] \div 10,
                                             c.pos[2] + carSprung[i].offset[2] \div 10>>]]} :
       \* updateDrivableCars
       \E dr \in {[k \in DOMAIN driven |-> updateDrivableCar(driven[k], delta)]} :
       \* the pushes of both loops, on the pedestrians' meshes of the last frame
       \E pushed \in {[p \in DOMAIN pedestrians |->
                         LET mesh == pedMesh(pedestrians[p], displacement.peds[p])
                             sum(f, n) == LET RECURSIVE S(_)
                                              S(m) == IF m = 0 THEN <<0, 0, 0>>
                                                      ELSE LET r == S(m - 1)
                                                               v == f[m]
                                                           IN  <<r[1] + v[1], r[2] + v[2], r[3] + v[3]>>
                                          IN  S(n)
                             npc == sum([i \in DOMAIN cs |->
                                           pushOf(<<cs[i].pos[1], CAR_Y_LEVEL, cs[i].pos[2]>>, mesh, 4 * CU, NPC_PUSH)],
                                        Len(cs))
                             drv == sum([k \in DOMAIN dr |->
                                           LET v == pushOf(<<dr[k].pos[1], dr[k].y, dr[k].pos[2]>>, mesh, 5 * CU, DRIVABLE_PUSH)
                                           IN  IF v = <<0, 0, 0>> THEN v ELSE <<v[1], v[2] + 5 * SU, v[3]>>],
                                        Len(dr))
                         IN  [displacement.peds[p] EXCEPT
                                !.dv = <<@[1] + npc[1] + drv[1], @[2] + npc[2] + drv[2], @[3] + npc[3] + drv[3]>>]]} :
       \* updatePedestrians
       \E pedSprung \in {[p \in DOMAIN pedestrians |-> pedSpring(pushed[p], delta)]} :
       \E routed \in {[p \in DOMAIN pedestrians |->
                         routeStep(pedestrians[p], pedestrians[p].pos, displacement.peds[p].lift, delta, picks[p])]} :
       \* updateCarCollisions
       \E all \in {updateCarCollisions(cs, carSprung, dr)} :
         /\ \A p \in DOMAIN pedestrians :
               picks[p] \in KnockPicks(pedestrians[p], displacement.peds[p], delta)
         /\ cars' = cs
         /\ lastCars' = [i \in DOMAIN cars |->
               [pos |-> cars[i].pos, fwd |-> cars[i].fwd, look |-> lookAheadPos(i),
                progress |-> cars[i].progress, target |-> targetSpeed(i)]]
         /\ pedestrians' = [p \in DOMAIN pedestrians |->
               [routed[p] EXCEPT !.pos =
                   <<curvePointAt(routed[p].path, routed[p].progress)[1] + pedSprung[p].offset[1] \div 10,
                     curvePointAt(routed[p].path, routed[p].progress)[2] + pedSprung[p].offset[3] \div 10>>]]
         /\ displacement' =
               [cars |-> [i \in DOMAIN cars |-> [offset |-> all[i].offset, dv |-> all[i].vel]],
                peds |-> pedSprung]
         /\ drivableCars' = [k \in DOMAIN drivableCars |->
               [dr[k] EXCEPT !.pos = all[Len(cs) + k].pos, !.velocity = all[Len(cs) + k].vel]]
         /\ updateTrain(delta)
         /\ lastKnock' =
               [frames |-> lastKnock.frames + 1,
                carSprung |-> [i \in DOMAIN cars |-> carSprung[i].offset],
                pedSprung |-> [p \in DOMAIN pedestrians |-> pedSprung[p].offset],
                reachedEnd |-> [p \in DOMAIN pedestrians |->
                    AdvanceClamped(pedestrians[p].progress, pedestrians[p].speed,
                                   curveLength(pedestrians[p].path), delta).reachedEnd],
                pick |-> picks,
                delta |-> delta,
                before |-> pedestrians,
                lift |-> [p \in DOMAIN pedestrians |-> displacement.peds[p].lift],
                displaced |-> [p \in DOMAIN pedestrians |-> displacement.peds[p].offset # <<0, 0, 0>>]]
    /\ ticks' = ticks + 1
    /\ UNCHANGED <<lastPeds, spring, pair>>

\* the ground under the driven car, 4 by 8 cells, and a wall one cell above
\* the sidewalk level along its far side
KnockCells ==
    [k \in 1 .. 40 |->
        IF k <= 32 THEN <<((k - 1) \div 8) - 89, GROUND_LEVEL, ((k - 1) % 8) - 38>>
        ELSE <<-86, 1, k - 33 - 38>>]

\* the sidewalk along the first road, 12 to its right
SidewalkB == Curve(<<roadX[1] + SIDEWALK_OFFSET, roadZ[1] + 10>>, <<roadX[1] + SIDEWALK_OFFSET, roadZ[2] - 10>>)

\* a drivable car as created (velocity 0, steering 0), where the player
\* stopped it: between the lane and the sidewalk, clear of the wall
DrivenCar == [pos |-> <<-875, -340>>, y |-> CAR_Y_LEVEL, velocity |-> <<0, 0>>, steering |-> 0]

NoDisplacement2 == [offset |-> <<0, 0>>, dv |-> <<0, 0>>]
NoDisplacement3 == [offset |-> <<0, 0, 0>>, dv |-> <<0, 0, 0>>, lift |-> 0]

KnockInit ==
    /\ SessionIdle
    /\ voxels = VoxelsOf(KnockCells)
    /\ voxelMap = MapOf(voxels)
    /\ GridIdle
    /\ BuildIdle
    /\ ppos = FarPlayer
    /\ pvel = <<0, 0, 0>>
    /\ isGrounded = TRUE
    /\ frames = 0
    /\ lastTick = NoTick
    /\ maxDeltaSeen = 0
    /\ \E progress \in {310156, 100000} : cars = <<NewCar(1, progress, CAR_SPEED * SU, TRUE)>>
    /\ \E progress \in {990000, 500000}, speed \in {3 * SU, (3 * SU) \div 2} :
         pedestrians = <<NewPedestrian(SidewalkB, progress, speed)>>
    /\ train = [progress |-> 0]
    /\ ticks = 0
    /\ lastCars = [i \in DOMAIN cars |->
          [pos |-> cars[i].pos, fwd |-> cars[i].fwd, look |-> cars[i].pos,
           progress |-> cars[i].progress, target |-> cars[i].desiredSpeed]]
    /\ lastPeds = <<NoBounce>>
    /\ spring = [offset |-> 0, dv |-> 0, n |-> 0, prev |-> 0, impulse |-> 0, fell |-> FALSE, hadFallen |-> FALSE]
    /\ pair = <<>>
    /\ drivableCars = <<DrivenCar>>
    /\ displacement = [cars |-> <<NoDisplacement2>>, peds |-> <<NoDisplacement3>>]
    /\ lastKnock = [frames |-> 0, carSprung |-> << <<0, 0>> >>, pedSprung |-> << <<0, 0, 0>> >>,
                    reachedEnd |-> <<FALSE>>, pick |-> <<[path |-> SidewalkB, startT |-> 0]>>,
                    delta |-> 0, before |-> pedestrians, lift |-> <<0>>, displaced |-> <<FALSE>>]

KnockNext ==
    \/ animateKnock /\ UNCHANGED <<gridVars, playerVars, buildVars, sessionVars>>

\* C12: a pedestrian that reaches the end of its curve with its mesh pushed
\* off the path finds the same candidates and ends the frame with the same
\* curve, progress and signed speed (and, on a bridge, the same start point)
\* as it would from its path position, with its offset held at zero.
C12_PathStateIgnoresOffset ==
    \A p \in DOMAIN pedestrians :
        (lastKnock.frames > 0 /\ lastKnock.reachedEnd[p])
            => LET b == lastKnock.before[p]
                   onPath == curvePointAt(b.path, b.progress)
               IN  /\ CandidatesFromMesh(b.path, b.pos, lastKnock.lift[p])
                        = CandidatesFromMesh(b.path, onPath, 0)
                   /\ pathState(pedestrians[p])
                        = pathState(routeStep(b, onPath, 0, lastKnock.delta, lastKnock.pick[p]))

\* C17: at the end of a frame the offset of every path car and pedestrian is
\* the one the frame's spring integration gave it: no push and no
\* vehicle-to-vehicle collision has written it.
C17_OffsetOnlyFromSpring ==
    lastKnock.frames > 0
        => /\ \A i \in DOMAIN cars : displacement.cars[i].offset = lastKnock.carSprung[i]
           /\ \A p \in DOMAIN pedestrians : displacement.peds[p].offset = lastKnock.pedSprung[p]

\* C18: the driven car, clear of every voxel when the player stopped it and
\* with the grid unchanged since, ends no frame with one of its twelve
\* footprint points, at either height, inside an occupied voxel.
C18_FootprintClear ==
    \A k \in DOMAIN drivableCars :
        ~checkCarWorldCollision(drivableCars[k].pos, drivableCars[k].y)

----------------------------------------------------------------------------
(* animate, call by call: the player on foot on the floor, cars 0 and 3 on
   their loops, one pedestrian, the train, and a parked drivable car.  The
   calls of animate that touch none of this (camera, doors, the indoor NPCs,
   the proximity prompts) are left out. *)

NoTarget == [found |-> FALSE, i |-> 0, n |-> 0]

ParkedCar == [DrivenCar EXCEPT !.pos = <<-2 * CU, 2 * CU>>]

FrameInit ==
    /\ voxels = VoxelsOf(FloorCells \o LedgeCells \o CeilingCells)
    /\ voxelMap = MapOf(voxels)
    /\ GridIdle
    /\ BuildIdle
    /\ \E s \in PlayerStarts : ppos = s.pos /\ isGrounded = s.grounded
    /\ pvel = <<0, 0, 0>>
    /\ frames = 0
    /\ lastTick = NoTick
    /\ maxDeltaSeen = 0
    /\ cars = <<NewCar(1, 500000, 12 * SU + 84, FALSE), NewCar(3, 700000, JamSpeed3, FALSE)>>
    /\ pedestrians = <<NewPedestrian(SidewalkA, 500000, 3 * SU)>>
    /\ train = [progress |-> 998000]
    /\ ticks = 0
    /\ lastCars = [i \in DOMAIN cars |->
          [pos |-> cars[i].pos, fwd |-> cars[i].fwd, look |-> cars[i].pos,
           progress |-> cars[i].progress, target |-> cars[i].desiredSpeed]]
    /\ lastPeds = <<NoBounce>>
    /\ spring = [offset |-> 0, dv |-> 0, n |-> 0, prev |-> 0, impulse |-> 0, fell |-> FALSE, hadFallen |-> FALSE]
    /\ pair = <<>>
    /\ drivableCars = <<ParkedCar>>
    /\ displacement = [cars |-> <<NoDisplacement2, NoDisplacement2>>, peds |-> <<NoDisplacement3>>]
    /\ lastKnock = [frames |-> 0]
    /\ animation = [pc |-> 0, delta |-> 0, ran |-> <<>>, target |-> NoTarget]
    /\ gemini = [sessionPromise |-> 0, activeChatSession |-> "none", micStream |-> FALSE]
    /\ isTalking = <<>>
    /\ chat = [isChatting |-> FALSE]
    /\ undoStackRef = <<>>
    /\ redoStackRef = <<>>
    /\ lastUndo = NoUndo

\* animate has reached call number pc of the frame and makes it
called(pc, name) ==
    /\ animation.pc = pc
    /\ animation' = [animation EXCEPT !.pc = pc + 1, !.ran = Append(@, name)]

\* line 3648 and 3651: the frame's delta, then logic.updatePlayer(delta)
animateUpdatePlayer ==
    /\ animation.pc = 0
    /\ frames < MaxFrames
    /\ \E delta \in {MaxDelta \div 2, MaxDelta}, move \in {<<0, 0>>, <<WALK_SPEED * VU, 0>>} :
         /\ updatePlayerStep(delta, move)
         /\ animation' = [animation EXCEPT !.pc = 1, !.delta = delta, !.ran = <<"updatePlayer">>]
    /\ frames' = frames + 1
    /\ UNCHANGED <<maxDeltaSeen, gridVars, trafficVars, buildVars, knockVars, chatVars, undoVars>>

\* line 3653: logic.updateTargetBlock()
animateUpdateTargetBlock ==
    /\ animation.pc = 1
    /\ \E distance \in Distances :
         animation' = [animation EXCEPT !.pc = 2, !.ran = Append(@, "updateTargetBlock"),
                                        !.target = updateTargetBlock(1, 1, distance, FALSE)]
    /\ UNCHANGED <<gridVars, playerVars, trafficVars, buildVars, knockVars, chatVars, undoVars>>

\* line 3661: logic.updateCars(delta), the path state and the offset spring
animateUpdateCars ==
    /\ called(2, "updateCars")
    /\ updateCars(animation.delta)
    /\ displacement' = [displacement EXCEPT
          !.cars = [i \in DOMAIN cars |-> carSpring(displacement.cars[i], animation.delta)]]
    /\ UNCHANGED <<pedestrians, train, ticks, lastPeds, spring, pair, drivableCars, lastKnock>>
    /\ UNCHANGED <<gridVars, playerVars, buildVars, chatVars, undoVars>>

\* line 3665: logic.updateDrivableCars(delta)
animateUpdateDrivableCars ==
    /\ called(3, "updateDrivableCars")
    /\ drivableCars' = [k \in DOMAIN drivableCars |-> updateDrivableCar(drivableCars[k], animation.delta)]
    /\ UNCHANGED <<spring, pair, displacement, lastKnock>>
    /\ UNCHANGED <<gridVars, playerVars, trafficVars, buildVars, chatVars, undoVars>>

\* line 3669: logic.updatePedestrians(delta)
animateUpdatePedestrians ==
    /\ called(4, "updatePedestrians")
    /\ updatePedestrians(animation.delta)
    /\ UNCHANGED <<cars, train, ticks, lastCars>>
    /\ UNCHANGED <<gridVars, playerVars, buildVars, knockVars, chatVars, undoVars>>

\* line 3672: logic.updateTrain(delta)
animateUpdateTrain ==
    /\ called(5, "updateTrain")
    /\ updateTrain(animation.delta)
    /\ UNCHANGED <<cars, pedestrians, ticks, lastCars, lastPeds>>
    /\ UNCHANGED <<gridVars, playerVars, buildVars, knockVars, chatVars, undoVars>>

\* line 3673: logic.updateCarCollisions()
animateUpdateCarCollisions ==
    /\ called(6, "updateCarCollisions")
    /\ \E all \in {updateCarCollisions(
                      [i \in DOMAIN cars |->
                          [cars[i] EXCEPT !.pos = <<@[1] + displacement.cars[i].offset[1] \div 10,
                                                    @[2] + displacement.cars[i].offset[2] \div 10>>]],
                      displacement.cars, drivableCars)} :
         /\ displacement' = [displacement EXCEPT
               !.cars = [i \in DOMAIN cars |-> [offset |-> all[i].offset, dv |-> all[i].vel]]]
         /\ drivableCars' = [k \in DOMAIN drivableCars |->
               [drivableCars[k] EXCEPT !.pos = all[Len(cars) + k].pos,
                                       !.velocity = all[Len(cars) + k].vel]]
    /\ UNCHANGED <<spring, pair, lastKnock>>
    /\ UNCHANGED <<gridVars, playerVars, trafficVars, buildVars, chatVars, undoVars>>

\* lines 3680-3684: the scene is rendered and the next frame requested
animateRender ==
    /\ animation.pc = 7
    /\ animation' = [animation EXCEPT !.pc = 0]
    /\ UNCHANGED <<gridVars, playerVars, trafficVars, buildVars, knockVars, chatVars, undoVars>>

FrameNext ==
    \/ animateUpdatePlayer
    \/ animateUpdateTargetBlock
    \/ animateUpdateCars
    \/ animateUpdateDrivableCars
    \/ animateUpdatePedestrians
    \/ animateUpdateTrain
    \/ animateUpdateCarCollisions
    \/ animateRender

\* in the calls of the current frame, every call of b comes after a call of a
RunsAfter(b, a) ==
    \A j \in DOMAIN animation.ran :
        animation.ran[j] = b => \E i \in 1 .. (j - 1) : animation.ran[i] = a

\* C24: within a frame the player moves first, then the path followers and
\* the traffic speed control run, then the vehicle collisions are resolved,
\* and the build/destroy target is recomputed only after all of these.
C24_DocumentedOrder ==
    /\ RunsAfter("updateCars", "updatePlayer")
    /\ RunsAfter("updatePedestrians", "updatePlayer")
    /\ RunsAfter("updateCarCollisions", "updateCars")
    /\ RunsAfter("updateTargetBlock", "updatePlayer")
    /\ RunsAfter("updateTargetBlock", "updateCars")
    /\ RunsAfter("updateTargetBlock", "updatePedestrians")
    /\ RunsAfter("updateTargetBlock", "updateCarCollisions")

----------------------------------------------------------------------------
(* The live chat sessions: the Chat and End buttons, startConversation with
   its awaits, the callbacks of the live sessions, endConversation *)

\* the chef (state.npc) and the teacher (state.teacher)
Npcs == {"chef", "teacher"}

\* Chat button presses per behaviour
MaxChats == 2

NoGemini == [sessionPromise |-> 0, activeChatSession |-> "none", micStream |-> FALSE]

\* endConversation on state.gemini; closing the session is left to the
\* session's own close callback
endConversationGemini == NoGemini

\* endConversation on the isTalking flags: the NPC of activeChatSession
endConversationTalking ==
    IF gemini.activeChatSession # "none"
    THEN [isTalking EXCEPT ![gemini.activeChatSession] = FALSE]
    ELSE isTalking

ChatInit ==
    /\ GridStart
    /\ PlayerIdle
    /\ TrafficIdle
    /\ BuildIdle
    /\ KnockIdle
    /\ animation = [pc |-> 0]
    /\ undoStackRef = <<>>
    /\ redoStackRef = <<>>
    /\ lastUndo = NoUndo
    /\ gemini = NoGemini
    /\ isTalking = [n \in Npcs |-> FALSE]
    /\ chat = [isChatting |-> FALSE, nearbyNpc |-> "none", calls |-> <<>>, sessions |-> <<>>,
               presses |-> 0, lastEnd |-> [by |-> 0, ended |-> 0]]

\* updateNpcProximityCheck: onNearestNpcChange(closest NPC or null)
onNearestNpcChange ==
    /\ \E n \in (Npcs \cup {"none"}) \ {chat.nearbyNpc} :
         chat' = [chat EXCEPT !.nearbyNpc = n]
    /\ UNCHANGED <<gemini, isTalking>>

\* the Chat button, shown while isNearNPC and not isChatting:
\* setIsChatting(true), startConversation(nearbyNpc) up to its first await
onStartChat ==
    /\ chat.nearbyNpc # "none" /\ ~chat.isChatting
    /\ chat.presses < MaxChats
    /\ chat' = [chat EXCEPT
          !.isChatting = TRUE,
          !.presses = @ + 1,
          !.calls = IF gemini.sessionPromise # 0 THEN @
                    ELSE Append(@, [npc |-> chat.nearbyNpc, pc |-> "getUserMedia"])]
    /\ UNCHANGED <<gemini, isTalking>>

\* lines 2836-2842 and 2865-3235: the flag, live.connect, sessionPromise
connect(c) ==
    /\ isTalking' = [isTalking EXCEPT ![chat.calls[c].npc] = TRUE]
    /\ chat' = [chat EXCEPT !.calls[c].pc = "done",
                            !.sessions = Append(@, [npc |-> chat.calls[c].npc, open |-> TRUE, errored |-> FALSE])]

\* getUserMedia resolves: micStream, activeChatSession, then the audio
\* contexts are resumed if the browser holds them suspended
micGranted ==
    \E c \in DOMAIN chat.calls, suspended \in BOOLEAN :
        /\ chat.calls[c].pc = "getUserMedia"
        /\ IF suspended
           THEN /\ gemini' = [gemini EXCEPT !.micStream = TRUE, !.activeChatSession = chat.calls[c].npc]
                /\ chat' = [chat EXCEPT !.calls[c].pc = "resume"]
                /\ UNCHANGED isTalking
           ELSE /\ connect(c)
                /\ gemini' = [micStream |-> TRUE, activeChatSession |-> chat.calls[c].npc,
                              sessionPromise |-> Len(chat.sessions) + 1]

\* getUserMedia rejects: the catch calls endConversation
micRefused ==
    \E c \in DOMAIN chat.calls :
        /\ chat.calls[c].pc = "getUserMedia"
        /\ chat' = [chat EXCEPT !.calls[c].pc = "done",
                                !.lastEnd = [by |-> 0, ended |-> gemini.sessionPromise]]
        /\ gemini' = endConversationGemini
        /\ isTalking' = endConversationTalking

\* the awaited resume() returns
contextResumed ==
    \E c \in DOMAIN chat.calls :
        /\ chat.calls[c].pc = "resume"
        /\ connect(c)
        /\ gemini' = [gemini EXCEPT !.sessionPromise = Len(chat.sessions) + 1]

\* onerror of live session s: endConversation()
onerror ==
    \E k \in DOMAIN chat.sessions :
        /\ chat.sessions[k].open /\ ~chat.sessions[k].errored
        /\ chat' = [chat EXCEPT !.sessions[k].errored = TRUE,
                                !.lastEnd = [by |-> k, ended |-> gemini.sessionPromise]]
        /\ gemini' = endConversationGemini
        /\ isTalking' = endConversationTalking

\* onclose of live session s: endConversation()
onclose ==
    \E k \in DOMAIN chat.sessions :
        /\ chat.sessions[k].open
        /\ chat' = [chat EXCEPT !.sessions[k].open = FALSE,
                                !.lastEnd = [by |-> k, ended |-> gemini.sessionPromise]]
        /\ gemini' = endConversationGemini
        /\ isTalking' = endConversationTalking

\* the End button, shown while isChatting: setIsChatting(false), endConversation()
onEndChat ==
    /\ chat.isChatting
    /\ chat' = [chat EXCEPT !.isChatting = FALSE,
                            !.lastEnd = [by |-> 0, ended |-> gemini.sessionPromise]]
    /\ gemini' = endConversationGemini
    /\ isTalking' = endConversationTalking

ChatUnchanged ==
    UNCHANGED <<gridVars, playerVars, trafficVars, buildVars, knockVars, animation, undoVars>>

ChatNext ==
    \/ onNearestNpcChange /\ ChatUnchanged
    \/ onStartChat /\ ChatUnchanged
    \/ micGranted /\ ChatUnchanged
    \/ micRefused /\ ChatUnchanged
    \/ contextResumed /\ ChatUnchanged
    \/ onerror /\ ChatUnchanged
    \/ onclose /\ ChatUnchanged
    \/ onEndChat /\ ChatUnchanged

\* C25: at most one NPC has isTalking set, and it is the NPC of the active
\* chat session; with no active session no NPC has it set.
C25_OnlyTheActiveNpcTalks ==
    /\ Cardinality({n \in Npcs : isTalking[n]}) <= 1
    /\ \A n \in Npcs : isTalking[n] => gemini.activeChatSession = n

\* C26: endConversation called from the close or error callback of a live
\* session ends no session but that one.
C26_CallbackEndsOwnSession ==
    chat.lastEnd.by # 0 => chat.lastEnd.ended \in {0, chat.lastEnd.by}

----------------------------------------------------------------------------
(* Specifications *)

SpecGrid == GridInit /\ [][GridNext]_vars

SpecPlayer == PlayerInit /\ [][PlayerNext]_vars

\* the frame loop keeps animating: requestAnimationFrame(animate)
SpecFall == FallInit /\ [][FallNext]_vars /\ WF_vars(FallNext)

SpecTraffic == TrafficInit /\ [][TrafficNext]_vars

SpecBuild == BuildInit /\ [][BuildNext]_vars

SpecSpring == SpringInit /\ [][SpringNext]_vars

SpecArbiter == ArbiterInit /\ [][ArbiterNext]_vars

SpecKnock == KnockInit /\ [][KnockNext]_vars

SpecFrame == FrameInit /\ [][FrameNext]_vars

SpecChat == ChatInit /\ [][ChatNext]_vars

SpecUndo == UndoInit /\ [][UndoNext]_vars

SpecJam == JamInit /\ [][JamNext]_vars /\ WF_ticks(nextFrame)
SpecBuildLive ==
    BuildLiveInit /\ [][BuildLiveNext]_vars /\ WF_ticks(nextFrame) /\ WF_inFlight(promiseSettles)

====
